---- MODULE Spec2Model ----
(***************************************************************************)
(* Dead Code Hunter: the graph-mode classifier (findDeadCode and its      *)
(* predicates) and the candidate-mode filter stage of dead-code.ts.        *)
(*                                                                         *)
(* A JavaScript string is a sequence of one-character strings, so that    *)
(* case folding and glob matching are computed character by character.    *)
(* An optional value (a property that may be undefined) is a sequence of  *)
(* length 0 (undefined) or 1 (the value).                                  *)
(***************************************************************************)
EXTENDS Integers, Sequences, FiniteSets, TLC

VARIABLES
    nodes,            \* findDeadCode argument: CodeGraphNode[]
    relationships,    \* findDeadCode argument: CodeGraphRelationship[]
    ignorePatterns,   \* findDeadCode / filterByIgnorePatterns argument: string[]
    order,            \* the order in which the five skip checks are evaluated
    deadCode,         \* findDeadCode's return value
    candidates,       \* filterByIgnorePatterns argument: DeadCodeCandidate[]
    filtered,         \* filterByIgnorePatterns' / filterByChangedFiles' return value
    changedFiles,     \* filterByChangedFiles argument: Set<string>
    metadata,         \* formatPrComment argument: DeadCodeAnalysisMetadata | undefined
    comment,          \* formatPrComment's return value, line by line
    poll,             \* pollForResult: its position, its locals and how it ended
    run,              \* run: its position, its inputs and locals, and what it did
    listing,          \* getChangedFiles: its position, its locals and how it ended
    pc                \* "call" before the function under study ran, "done" after

vars == <<nodes, relationships, ignorePatterns, order, deadCode, candidates, filtered,
          changedFiles, metadata, comment, poll, run, listing, pc>>

----------------------------------------------------------------------------
(* Optional values and strings *)

Undefined == <<>>
Some(v) == <<v>>
IsDefined(o) == Len(o) = 1
Value(o) == o[1]

EmptyString == <<>>

\* JS truthiness of an optional string: undefined and '' are falsy.
TruthyString(o) == IsDefined(o) /\ Value(o) # EmptyString

UpperCase == <<"A","B","C","D","E","F","G","H","I","J","K","L","M",
               "N","O","P","Q","R","S","T","U","V","W","X","Y","Z">>
LowerCase == <<"a","b","c","d","e","f","g","h","i","j","k","l","m",
               "n","o","p","q","r","s","t","u","v","w","x","y","z">>

\* the lower-case letter of each upper-case letter, and the converse
LowerOf == [c \in {UpperCase[k] : k \in 1..Len(UpperCase)} |->
               LowerCase[CHOOSE k \in 1..Len(UpperCase) : UpperCase[k] = c]]
UpperOf == [c \in {LowerCase[k] : k \in 1..Len(LowerCase)} |->
               UpperCase[CHOOSE k \in 1..Len(LowerCase) : LowerCase[k] = c]]

toLowerChar(c) == IF c \in DOMAIN LowerOf THEN LowerOf[c] ELSE c

toUpperChar(c) == IF c \in DOMAIN UpperOf THEN UpperOf[c] ELSE c

\* String.prototype.toLowerCase on the letters A-Z
toLowerCase(s) == [k \in 1..Len(s) |-> toLowerChar(s[k])]
toUpperCase(s) == [k \in 1..Len(s) |-> toUpperChar(s[k])]

\* s.split('/'): the segments between the slashes; '' splits into ['']
RECURSIVE SplitFrom(_, _, _)
SplitFrom(s, k, cur) ==
    IF k > Len(s) THEN <<cur>>
    ELSE IF s[k] = "/" THEN <<cur>> \o SplitFrom(s, k + 1, <<>>)
    ELSE SplitFrom(s, k + 1, Append(cur, s[k]))

slashSplit(s) == SplitFrom(s, 1, <<>>)

----------------------------------------------------------------------------
(* minimatch(path, pattern) for patterns made of literal characters, '*',  *)
(* '**' segments, a leading '!' (negation) and a leading '#' (comment),    *)
(* with the default options (dot: false).                                  *)

GLOBSTAR == <<"*", "*">>

\* a path part that '*' and '**' refuse to match: it starts with a dot
DotPart(seg) == Len(seg) > 0 /\ seg[1] = "."

HasMagic(pseg) == \E k \in 1..Len(pseg) : pseg[k] = "*"

\* the regular expression of one pattern part: '*' is [^/]*?
RECURSIVE StarMatch(_, _, _, _)
StarMatch(f, i, p, j) ==
    IF j > Len(p) THEN i > Len(f)
    ELSE IF p[j] = "*"
         THEN \E n \in i..(Len(f) + 1) : StarMatch(f, n, p, j + 1)
         ELSE i <= Len(f) /\ f[i] = p[j] /\ StarMatch(f, i + 1, p, j + 1)

\* one path part against one pattern part: a string comparison when the
\* pattern part has no magic, else its regular expression, which needs a
\* non-empty part and refuses a leading dot where the pattern starts with '*'
PartMatch(fseg, pseg) ==
    IF ~HasMagic(pseg) THEN fseg = pseg
    ELSE /\ Len(fseg) > 0
         /\ ~(pseg[1] = "*" /\ DotPart(fseg))
         /\ StarMatch(fseg, 1, pseg, 1)

RECURSIVE matchOne(_, _, _, _)
RECURSIVE swallow(_, _, _, _)

\* Minimatch.matchOne(file, pattern, partial = false) from part fi and pi on
matchOne(file, fi, pattern, pi) ==
    IF fi > Len(file) \/ pi > Len(pattern)
    THEN IF fi > Len(file) /\ pi > Len(pattern) THEN TRUE
         ELSE IF fi > Len(file) THEN FALSE
         ELSE fi = Len(file) /\ file[fi] = EmptyString
    ELSE IF pattern[pi] = GLOBSTAR
         THEN IF pi = Len(pattern)
              THEN \A k \in fi..Len(file) : ~DotPart(file[k])
              ELSE swallow(file, fi, pattern, pi + 1)
         ELSE PartMatch(file[fi], pattern[pi])
              /\ matchOne(file, fi + 1, pattern, pi + 1)

\* the '**' loop: try the rest of the pattern at fr, else swallow file[fr]
swallow(file, fr, pattern, pr) ==
    IF fr > Len(file) THEN FALSE
    ELSE IF matchOne(file, fr, pattern, pr) THEN TRUE
    ELSE IF DotPart(file[fr]) THEN FALSE
    ELSE swallow(file, fr + 1, pattern, pr)

\* the number of leading '!' of a pattern (parseNegate)
RECURSIVE negateOffset(_, _)
negateOffset(p, k) ==
    IF k <= Len(p) /\ p[k] = "!" THEN negateOffset(p, k + 1) ELSE k - 1

minimatchCompute(f, p) ==
    IF Len(p) > 0 /\ p[1] = "#" THEN FALSE
    ELSE IF p = EmptyString THEN f = EmptyString
    ELSE LET n    == negateOffset(p, 1)
             body == SubSeq(p, n + 1, Len(p))
             hit  == matchOne(slashSplit(f), 1, slashSplit(body), 1)
         IN  IF n % 2 = 1 THEN ~hit ELSE hit


----------------------------------------------------------------------------
(* The pattern lists and the roster of dead-code.ts *)

DEFAULT_EXCLUDE_PATTERNS == <<
    <<"*","*","/","n","o","d","e","_","m","o","d","u","l","e","s","/","*","*">>,  \* **/node_modules/**
    <<"*","*","/","d","i","s","t","/","*","*">>,  \* **/dist/**
    <<"*","*","/","b","u","i","l","d","/","*","*">>,  \* **/build/**
    <<"*","*","/",".","g","i","t","/","*","*">>,  \* **/.git/**
    <<"*","*","/","v","e","n","d","o","r","/","*","*">>,  \* **/vendor/**
    <<"*","*","/","t","a","r","g","e","t","/","*","*">>,  \* **/target/**
    <<"*","*","/","*",".","t","e","s","t",".","t","s">>,  \* **/*.test.ts
    <<"*","*","/","*",".","t","e","s","t",".","t","s","x">>,  \* **/*.test.tsx
    <<"*","*","/","*",".","t","e","s","t",".","j","s">>,  \* **/*.test.js
    <<"*","*","/","*",".","t","e","s","t",".","j","s","x">>,  \* **/*.test.jsx
    <<"*","*","/","*",".","s","p","e","c",".","t","s">>,  \* **/*.spec.ts
    <<"*","*","/","*",".","s","p","e","c",".","t","s","x">>,  \* **/*.spec.tsx
    <<"*","*","/","*",".","s","p","e","c",".","j","s">>,  \* **/*.spec.js
    <<"*","*","/","*",".","s","p","e","c",".","j","s","x">>,  \* **/*.spec.jsx
    <<"*","*","/","_","_","t","e","s","t","s","_","_","/","*","*">>,  \* **/__tests__/**
    <<"*","*","/","_","_","m","o","c","k","s","_","_","/","*","*">>  \* **/__mocks__/**
>>

ENTRY_POINT_PATTERNS == <<
    <<"*","*","/","i","n","d","e","x",".","t","s">>,  \* **/index.ts
    <<"*","*","/","i","n","d","e","x",".","j","s">>,  \* **/index.js
    <<"*","*","/","m","a","i","n",".","t","s">>,  \* **/main.ts
    <<"*","*","/","m","a","i","n",".","j","s">>,  \* **/main.js
    <<"*","*","/","a","p","p",".","t","s">>,  \* **/app.ts
    <<"*","*","/","a","p","p",".","j","s">>,  \* **/app.js
    <<"*","*","/","*",".","t","e","s","t",".","*">>,  \* **/*.test.*
    <<"*","*","/","*",".","s","p","e","c",".","*">>,  \* **/*.spec.*
    <<"*","*","/","_","_","t","e","s","t","s","_","_","/","*","*">>  \* **/__tests__/**
>>

ENTRY_POINT_FUNCTION_NAMES == <<
    <<"m","a","i","n">>,  \* main
    <<"r","u","n">>,  \* run
    <<"s","t","a","r","t">>,  \* start
    <<"i","n","i","t">>,  \* init
    <<"s","e","t","u","p">>,  \* setup
    <<"b","o","o","t","s","t","r","a","p">>,  \* bootstrap
    <<"d","e","f","a","u","l","t">>,  \* default
    <<"h","a","n","d","l","e","r">>,  \* handler
    <<"G","E","T">>,  \* GET
    <<"P","O","S","T">>,  \* POST
    <<"P","U","T">>,  \* PUT
    <<"D","E","L","E","T","E">>,  \* DELETE
    <<"P","A","T","C","H">>  \* PATCH
>>

anonymous == <<"a","n","o","n","y","m","o","u","s">>

----------------------------------------------------------------------------
(* The strings, paths and patterns the inputs are drawn from *)

\* --- strings
helper == <<"h","e","l","p","e","r">>  \* 'helper'
processData == <<"p","r","o","c","e","s","s","D","a","t","a">>  \* 'processData'
Main == <<"M","a","i","n">>  \* 'Main'
ctxFn == <<"c","t","x","F","n">>  \* 'ctxFn'
srcUtilsTs == <<"s","r","c","/","u","t","i","l","s",".","t","s">>  \* 'src/utils.ts'
srcIndexTs == <<"s","r","c","/","i","n","d","e","x",".","t","s">>  \* 'src/index.ts'
distXJs == <<"d","i","s","t","/","x",".","j","s">>  \* 'dist/x.js'
srcGeneratedApiTs == <<"s","r","c","/","g","e","n","e","r","a","t","e","d","/","a","p","i",".","t","s">>  \* 'src/generated/api.ts'
srcTestsHTs == <<"s","r","c","/","_","_","t","e","s","t","s","_","_","/","h",".","t","s">>  \* 'src/__tests__/h.ts'
srcMocksHTs == <<"s","r","c","/","_","_","m","o","c","k","s","_","_","/","h",".","t","s">>  \* 'src/__mocks__/h.ts'
nodeModulesIndexJs == <<"n","o","d","e","_","m","o","d","u","l","e","s","/","l","/","i","n","d","e","x",".","j","s">>  \* 'node_modules/l/index.js'
libHelpersTs == <<"l","i","b","/","h","e","l","p","e","r","s",".","t","s">>  \* 'lib/helpers.ts'
cfgIndexTs == <<".","c","f","g","/","i","n","d","e","x",".","t","s">>  \* '.cfg/index.ts'
generatedGlob == <<"*","*","/","g","e","n","e","r","a","t","e","d","/","*","*">>  \* '**/generated/**'
notSrcGlob == <<"!","s","r","c","/","*","*">>  \* '!src/**'
srcStarTsGlob == <<"s","r","c","/","*",".","t","s">>  \* 'src/*.ts'

\* --- file paths: <directory><base name>.<extension>, and a few others
Directories == <<
    <<>>,  \* ''
    <<"s","r","c","/">>,  \* src/
    <<"a","/","b","/">>,  \* a/b/
    <<".","c","f","g","/">>  \* .cfg/
>>

BaseNames == <<
    <<"i","n","d","e","x">>,  \* index
    <<"m","a","i","n">>,  \* main
    <<"a","p","p">>,  \* app
    <<"u","t","i","l","s">>,  \* utils
    <<"a",".","t","e","s","t">>,  \* a.test
    <<"a",".","s","p","e","c">>  \* a.spec
>>

Extensions == <<
    <<"t","s">>,  \* ts
    <<"j","s">>,  \* js
    <<"p","y">>,  \* py
    <<"t","s","x">>  \* tsx
>>

GeneratedPaths ==
    {Directories[d] \o BaseNames[b] \o <<".">> \o Extensions[e] :
        d \in 1..Len(Directories), b \in 1..Len(BaseNames), e \in 1..Len(Extensions)}

OtherPaths == {EmptyString, srcUtilsTs, srcIndexTs, distXJs, srcGeneratedApiTs,
               srcTestsHTs, srcMocksHTs, nodeModulesIndexJs, libHelpersTs}

PathDomain == GeneratedPaths \cup OtherPaths

\* --- caller-supplied glob patterns
CallerPatterns == {generatedGlob, notSrcGlob, EmptyString, srcStarTsGlob}

AllPatterns ==
    {DEFAULT_EXCLUDE_PATTERNS[k] : k \in 1..Len(DEFAULT_EXCLUDE_PATTERNS)}
        \cup {ENTRY_POINT_PATTERNS[k] : k \in 1..Len(ENTRY_POINT_PATTERNS)}
        \cup CallerPatterns

MatchTable == [f \in PathDomain |-> [p \in AllPatterns |-> minimatchCompute(f, p)]]

\* minimatch(path, pattern), computed once for every path and pattern in use
minimatch(f, p) == MatchTable[f][p]

\* patterns.some(pattern => minimatch(filePath, pattern))
RECURSIVE someMatch(_, _, _)
someMatch(filePath, patterns, k) ==
    IF k > Len(patterns) THEN FALSE
    ELSE IF minimatch(filePath, patterns[k]) THEN TRUE
    ELSE someMatch(filePath, patterns, k + 1)

\* mutant: the entry-point check run against the exclude list
isEntryPointFile_excludeList(filePath) == someMatch(filePath, DEFAULT_EXCLUDE_PATTERNS, 1)

isEntryPointFile(filePath) == someMatch(filePath, ENTRY_POINT_PATTERNS, 1)

\* mutant: the name is compared without being lower-cased
isEntryPointFunction_caseSensitive(name) ==
    \E k \in 1..Len(ENTRY_POINT_FUNCTION_NAMES) :
        name = toLowerCase(ENTRY_POINT_FUNCTION_NAMES[k])

isEntryPointFunction(name) ==
    LET lowerName == toLowerCase(name)
    IN  \E k \in 1..Len(ENTRY_POINT_FUNCTION_NAMES) :
            lowerName = toLowerCase(ENTRY_POINT_FUNCTION_NAMES[k])

\* mutant: the caller-supplied patterns are left out
shouldIgnoreFile_defaultsOnly(filePath, patterns) ==
    someMatch(filePath, DEFAULT_EXCLUDE_PATTERNS, 1)

shouldIgnoreFile(filePath, patterns) ==
    LET allPatterns == DEFAULT_EXCLUDE_PATTERNS \o patterns
    IN  someMatch(filePath, allPatterns, 1)

----------------------------------------------------------------------------
(* findDeadCode *)

\* node.properties || {}
EmptyProps == [name |-> Undefined, filePath |-> Undefined, file |-> Undefined,
               exported |-> Undefined, isExported |-> Undefined,
               startLine |-> Undefined, endLine |-> Undefined]

propsOf(node) ==
    IF IsDefined(node.properties) THEN Value(node.properties) ELSE EmptyProps

\* props.filePath || props.file || ''
filePathOf(node) ==
    LET props == propsOf(node)
    IN  IF TruthyString(props.filePath) THEN Value(props.filePath)
        ELSE IF TruthyString(props.file) THEN Value(props.file)
        ELSE EmptyString

\* mutant: a missing name is left empty
nameOf_noDefault(node) ==
    LET props == propsOf(node)
    IN  IF TruthyString(props.name) THEN Value(props.name) ELSE EmptyString

\* props.name || 'anonymous'
nameOf(node) ==
    LET props == propsOf(node)
    IN  IF TruthyString(props.name) THEN Value(props.name) ELSE anonymous

\* mutant: the legacy alias isExported is not looked at
isExportedNode_noAlias(node) == propsOf(node).exported = Some(TRUE)

\* props.exported === true || props.isExported === true
isExportedNode(node) ==
    LET props == propsOf(node)
    IN  props.exported = Some(TRUE) \/ props.isExported = Some(TRUE)

\* mutant: every labelled node is taken for a function
isFunctionNode_anyLabel(node) == IsDefined(node.labels)

\* node.labels?.includes('Function')
isFunctionNode(node) ==
    /\ IsDefined(node.labels)
    /\ \E k \in 1..Len(Value(node.labels)) : Value(node.labels)[k] = "Function"

functionNodesOf(ns) == SelectSeq(ns, isFunctionNode)

\* mutant: relationships of every type are taken for calls
isCallRelationship_anyType(rel) == TRUE

isCallRelationship(rel) == rel.type = "calls"

callRelationshipsOf(rels) == SelectSeq(rels, isCallRelationship)

\* mutant: a call of a function by itself does not count
calledFunctionIdsOf_noSelfCalls(rels) ==
    {callRelationshipsOf(rels)[k].endNode :
        k \in {j \in 1..Len(callRelationshipsOf(rels)) :
                  callRelationshipsOf(rels)[j].startNode # callRelationshipsOf(rels)[j].endNode}}

\* mutant: the set is built from the callers instead of the callees
calledFunctionIdsOf_startNode(rels) ==
    LET callRelationships == callRelationshipsOf(rels)
    IN  {callRelationships[k].startNode : k \in 1..Len(callRelationships)}

\* new Set(callRelationships.map(rel => rel.endNode))
calledFunctionIdsOf(rels) ==
    LET callRelationships == callRelationshipsOf(rels)
    IN  {callRelationships[k].endNode : k \in 1..Len(callRelationships)}

\* the five skip checks of the loop body, in the order of the source
CodeOrder == <<"called", "ignored", "entryFile", "entryName", "exported">>

skipCheck(check, node, calledFunctionIds, patterns) ==
    CASE check = "called"    -> node.id \in calledFunctionIds
      [] check = "ignored"   -> shouldIgnoreFile(filePathOf(node), patterns)
      [] check = "entryFile" -> isEntryPointFile(filePathOf(node))
      [] check = "entryName" -> isEntryPointFunction(nameOf(node))
      [] check = "exported"  -> isExportedNode(node)

\* mutant: the exported check leaves the loop instead of skipping the node
onSkip_breakOnExported(check) == IF check = "exported" THEN "break" ELSE "continue"

\* what a check that holds does to the loop: every one of them is `continue`
onSkip(check) == "continue"

\* the loop body for one node with the checks in the order ord: the statement
\* the first check that holds executes, or "push" when none holds
RECURSIVE loopBody(_, _, _, _, _)
loopBody(node, calledFunctionIds, patterns, ord, k) ==
    IF k > Len(ord) THEN "push"
    ELSE IF skipCheck(ord[k], node, calledFunctionIds, patterns) THEN onSkip(ord[k])
    ELSE loopBody(node, calledFunctionIds, patterns, ord, k + 1)

\* the DeadCodeResult pushed for a node
resultOf(node) ==
    [id |-> node.id, name |-> nameOf(node), filePath |-> filePathOf(node),
     startLine |-> propsOf(node).startLine, endLine |-> propsOf(node).endLine]

\* for (const node of functionNodes) { ... } from node i on, deadCode so far acc
RECURSIVE loopFrom(_, _, _, _, _, _)
loopFrom(functionNodes, calledFunctionIds, patterns, ord, i, acc) ==
    IF i > Len(functionNodes) THEN acc
    ELSE LET stmt == loopBody(functionNodes[i], calledFunctionIds, patterns, ord, 1)
         IN  IF stmt = "break" THEN acc
             ELSE IF stmt = "continue"
                  THEN loopFrom(functionNodes, calledFunctionIds, patterns, ord, i + 1, acc)
                  ELSE loopFrom(functionNodes, calledFunctionIds, patterns, ord, i + 1,
                                Append(acc, resultOf(functionNodes[i])))

\* findDeadCode with its skip checks evaluated in the order ord
findDeadCodeIn(ord, ns, rels, patterns) ==
    loopFrom(functionNodesOf(ns), calledFunctionIdsOf(rels), patterns, ord, 1, <<>>)

findDeadCode(ns, rels, patterns) == findDeadCodeIn(CodeOrder, ns, rels, patterns)

----------------------------------------------------------------------------
(* filterByIgnorePatterns *)

\* mutant: a candidate is dropped only when every pattern matches it
keepsCandidate_every(c, patterns) ==
    \E k \in 1..Len(patterns) : ~minimatch(c.file, patterns[k])

\* !ignorePatterns.some(p => minimatch(c.file, p))
keepsCandidate(c, patterns) == ~someMatch(c.file, patterns, 1)

filterByIgnorePatterns(cands, patterns) ==
    IF Len(patterns) = 0 THEN cands
    ELSE SelectSeq(cands, LAMBDA c : keepsCandidate(c, patterns))

----------------------------------------------------------------------------
(* Bounds and input domains *)

\* changedFiles.has(c.file) with the file names read as glob patterns
setHas_glob(files, file) == \E f \in files : minimatchCompute(file, f)

\* Set.prototype.has: membership by string equality
setHas(files, file) == file \in files

filterByChangedFiles_reversed(cands, files) ==
    LET kept == SelectSeq(cands, LAMBDA c : setHas(files, c.file))
    IN  [k \in 1..Len(kept) |-> kept[Len(kept) + 1 - k]]

filterByChangedFiles(cands, files) ==
    SelectSeq(cands, LAMBDA c : setHas(files, c.file))

----------------------------------------------------------------------------
(* formatPrComment: the report as the sequence of its lines, the text being
   the lines joined by "\n" *)

\* '## Dead Code Hunter'
reportTitle ==
    <<"#","#"," ","D","e","a","d"," ","C","o","d","e"," ","H","u","n","t","e","r">>

\* 'No dead code found! Your codebase is clean.'
noDeadCodeFound ==
    <<"N","o"," ","d","e","a","d"," ","c","o","d","e"," ","f","o","u","n","d","!"," ","Y","o","u","r"," ","c","o","d","e","b","a","s","e"," ","i","s"," ","c","l","e","a","n",".">>

\* 'Found **'
foundOpen ==
    <<"F","o","u","n","d"," ","*","*">>

\* '** potentially unused code element'
unusedCodeElement ==
    <<"*","*"," ","p","o","t","e","n","t","i","a","l","l","y"," ","u","n","u","s","e","d"," ","c","o","d","e"," ","e","l","e","m","e","n","t">>

\* '** potentially unused function'
unusedFunction ==
    <<"*","*"," ","p","o","t","e","n","t","i","a","l","l","y"," ","u","n","u","s","e","d"," ","f","u","n","c","t","i","o","n">>

\* '| Name | Type | File | Line | Confidence |'
candidateTableHeader ==
    <<"|"," ","N","a","m","e"," ","|"," ","T","y","p","e"," ","|"," ","F","i","l","e"," ","|"," ","L","i","n","e"," ","|"," ","C","o","n","f","i","d","e","n","c","e"," ","|">>

\* '|------|------|------|------|------------|'
candidateTableRule ==
    <<"|","-","-","-","-","-","-","|","-","-","-","-","-","-","|","-","-","-","-","-","-","|","-","-","-","-","-","-","|","-","-","-","-","-","-","-","-","-","-","-","-","|">>

\* '| Function | File | Line |'
graphTableHeader ==
    <<"|"," ","F","u","n","c","t","i","o","n"," ","|"," ","F","i","l","e"," ","|"," ","L","i","n","e"," ","|">>

\* '|----------|------|------|'
graphTableRule ==
    <<"|","-","-","-","-","-","-","-","-","-","-","|","-","-","-","-","-","-","|","-","-","-","-","-","-","|">>

\* '_...and '
moreOpen ==
    <<"_",".",".",".","a","n","d"," ">>

\* ' more. See action output for full list._'
moreClose ==
    <<" ","m","o","r","e","."," ","S","e","e"," ","a","c","t","i","o","n"," ","o","u","t","p","u","t"," ","f","o","r"," ","f","u","l","l"," ","l","i","s","t",".","_">>

\* '<details><summary>Analysis summary</summary>'
summaryOpen ==
    <<"<","d","e","t","a","i","l","s",">","<","s","u","m","m","a","r","y",">","A","n","a","l","y","s","i","s"," ","s","u","m","m","a","r","y","<","/","s","u","m","m","a","r","y",">">>

\* '- **Total declarations analyzed**: '
totalDeclarationsLabel ==
    <<"-"," ","*","*","T","o","t","a","l"," ","d","e","c","l","a","r","a","t","i","o","n","s"," ","a","n","a","l","y","z","e","d","*","*",":"," ">>

\* '- **Dead code candidates**: '
deadCodeCandidatesLabel ==
    <<"-"," ","*","*","D","e","a","d"," ","c","o","d","e"," ","c","a","n","d","i","d","a","t","e","s","*","*",":"," ">>

\* '- **Alive code**: '
aliveCodeLabel ==
    <<"-"," ","*","*","A","l","i","v","e"," ","c","o","d","e","*","*",":"," ">>

\* '- **Analysis method**: '
analysisMethodLabel ==
    <<"-"," ","*","*","A","n","a","l","y","s","i","s"," ","m","e","t","h","o","d","*","*",":"," ">>

\* '- **Transitive dead**: '
transitiveDeadLabel ==
    <<"-"," ","*","*","T","r","a","n","s","i","t","i","v","e"," ","d","e","a","d","*","*",":"," ">>

\* '- **Symbol-level dead**: '
symbolLevelDeadLabel ==
    <<"-"," ","*","*","S","y","m","b","o","l","-","l","e","v","e","l"," ","d","e","a","d","*","*",":"," ">>

\* '</details>'
detailsClose ==
    <<"<","/","d","e","t","a","i","l","s",">">>

\* '---'
horizontalRule ==
    <<"-","-","-">>

\* '_Powered by [Supermodel](https://supermodeltools.com) dead code analysis_'
candidateFooter ==
    <<"_","P","o","w","e","r","e","d"," ","b","y"," ","[","S","u","p","e","r","m","o","d","e","l","]","(","h","t","t","p","s",":","/","/","s","u","p","e","r","m","o","d","e","l","t","o","o","l","s",".","c","o","m",")"," ","d","e","a","d"," ","c","o","d","e"," ","a","n","a","l","y","s","i","s","_">>

\* '_Powered by [Supermodel](https://supermodeltools.com) graph analysis_'
graphFooter ==
    <<"_","P","o","w","e","r","e","d"," ","b","y"," ","[","S","u","p","e","r","m","o","d","e","l","]","(","h","t","t","p","s",":","/","/","s","u","p","e","r","m","o","d","e","l","t","o","o","l","s",".","c","o","m",")"," ","g","r","a","p","h"," ","a","n","a","l","y","s","i","s","_">>

\* ':red_circle:'
redCircle ==
    <<":","r","e","d","_","c","i","r","c","l","e",":">>

\* ':orange_circle:'
orangeCircle ==
    <<":","o","r","a","n","g","e","_","c","i","r","c","l","e",":">>

\* ':yellow_circle:'
yellowCircle ==
    <<":","y","e","l","l","o","w","_","c","i","r","c","l","e",":">>

\* the character U+0060, which no string literal can hold
Backtick == "U+0060"

\* '| ' and a backtick
rowOpen ==
    <<"|"," ",Backtick>>

\* a backtick and ' | '
nameClose ==
    <<Backtick," ","|"," ">>

\* ' | '
cellBreak ==
    <<" ","|"," ">>

\* ' |'
rowClose ==
    <<" ","|">>

\* '#L'
hashL ==
    <<"#","L">>

\* the characters of the values of DeadCodeCandidate.type and .confidence
charsOf(s) ==
    CASE s = "function" -> <<"f","u","n","c","t","i","o","n">>
      [] s = "class" -> <<"c","l","a","s","s">>
      [] s = "high" -> <<"h","i","g","h">>
      [] s = "medium" -> <<"m","e","d","i","u","m">>
      [] s = "low" -> <<"l","o","w">>
      [] s = "No callers found in codebase" ->
            <<"N","o"," ","c","a","l","l","e","r","s"," ","f","o","u","n","d"," ","i","n"," ","c","o","d","e","b","a","s","e">>

DecimalDigits == <<"0","1","2","3","4","5","6","7","8","9">>

RECURSIVE toDecimal(_)
\* `${n}` for a non-negative integer n
toDecimal(n) ==
    IF n < 10 THEN <<DecimalDigits[n + 1]>>
    ELSE toDecimal(n \div 10) \o <<DecimalDigits[(n % 10) + 1]>>

RECURSIVE replaceFrom(_, _, _, _)
replaceFrom(text, ch, replacement, i) ==
    IF i > Len(text) THEN <<>>
    ELSE (IF text[i] = ch THEN replacement ELSE <<text[i]>>)
             \o replaceFrom(text, ch, replacement, i + 1)

\* text.replace(/ch/g, replacement)
replaceAll(text, ch, replacement) == replaceFrom(text, ch, replacement, 1)

escapeTableCell_pipesOnly(text) == replaceAll(text, "|", <<"\\", "|">>)

escapeTableCell(text) ==
    replaceAll(replaceAll(text, "|", <<"\\", "|">>), "\n", <<" ">>)

\* a number | undefined in a condition
truthyNumber(o) == IsDefined(o) /\ Value(o) # 0

isNonNull_truthy(o) == truthyNumber(o)

\* o != null
isNonNull(o) == IsDefined(o)

MaxTableRows == 50

slice_all(q, end) == q

\* q.slice(0, end)
slice(q, end) == SubSeq(q, 1, IF Len(q) < end THEN Len(q) ELSE end)

plural_always(n) == <<"s">>

\* n === 1 ? '' : 's'
plural(n) == IF n = 1 THEN EmptyString ELSE <<"s">>

isEmptyList_never(list) == FALSE

\* list.length === 0
isEmptyList(list) == Len(list) = 0

\* comment += text, text given by its lines
appendText(body, text) ==
    SubSeq(body, 1, Len(body) - 1)
        \o <<body[Len(body)] \o text[1]>>
        \o SubSeq(text, 2, Len(text))

\* lines.join('\n')
joinLines(lines) == IF lines = <<>> THEN <<EmptyString>> ELSE lines

emptyReport == <<reportTitle, EmptyString, noDeadCodeFound>>

lineInfo(line) == IF truthyNumber(line) THEN <<"L">> \o toDecimal(Value(line)) ELSE EmptyString

fileLink(file, line) ==
    IF truthyNumber(line) THEN file \o hashL \o toDecimal(Value(line)) ELSE file

badge(dc) ==
    IF dc.confidence = "high" THEN redCircle
    ELSE IF dc.confidence = "medium" THEN orangeCircle ELSE yellowCircle

candidateRow(dc) ==
    rowOpen \o escapeTableCell(dc.name) \o nameClose \o charsOf(dc.type) \o cellBreak
        \o fileLink(dc.file, dc.line) \o cellBreak \o lineInfo(dc.line) \o cellBreak
        \o badge(dc) \o <<" ">> \o charsOf(dc.confidence) \o rowClose

graphRow(dc) ==
    rowOpen \o dc.name \o nameClose \o fileLink(dc.filePath, dc.startLine) \o cellBreak
        \o lineInfo(dc.startLine) \o rowClose

moreNote(n) ==
    <<EmptyString, EmptyString, moreOpen \o toDecimal(n - MaxTableRows) \o moreClose>>

withMoreNote(body, n) ==
    IF n > MaxTableRows THEN appendText(body, moreNote(n)) ELSE body

withMetadata(body, meta) ==
    LET md == Value(meta)
        c1 == appendText(body, <<EmptyString, EmptyString, summaryOpen, EmptyString, EmptyString>>)
        c2 == appendText(c1, <<totalDeclarationsLabel \o toDecimal(md.totalDeclarations), EmptyString>>)
        c3 == appendText(c2, <<deadCodeCandidatesLabel \o toDecimal(md.deadCodeCandidates), EmptyString>>)
        c4 == appendText(c3, <<aliveCodeLabel \o toDecimal(md.aliveCode), EmptyString>>)
        c5 == appendText(c4, <<analysisMethodLabel \o md.analysisMethod, EmptyString>>)
        c6 == IF isNonNull(md.transitiveDeadCount)
              THEN appendText(c5, <<transitiveDeadLabel \o toDecimal(Value(md.transitiveDeadCount)),
                                    EmptyString>>)
              ELSE c5
        c7 == IF isNonNull(md.symbolLevelDeadCount)
              THEN appendText(c6, <<symbolLevelDeadLabel \o toDecimal(Value(md.symbolLevelDeadCount)),
                                    EmptyString>>)
              ELSE c6
    IN  IF IsDefined(meta) THEN appendText(c7, <<EmptyString, detailsClose>>) ELSE body

withFooter_none(body, footer) == body

withFooter(body, footer) ==
    appendText(body, <<EmptyString, EmptyString, horizontalRule, footer>>)

formatPrComment(cands, meta) ==
    IF isEmptyList(cands) THEN emptyReport
    ELSE LET rows == joinLines([k \in 1..Len(slice(cands, MaxTableRows)) |->
                                   candidateRow(cands[k])])
             body == <<reportTitle, EmptyString,
                          foundOpen \o toDecimal(Len(cands)) \o unusedCodeElement
                              \o plural(Len(cands)) \o <<":">>,
                          EmptyString, candidateTableHeader, candidateTableRule>> \o rows
         IN  withFooter(withMetadata(withMoreNote(body, Len(cands)), meta),
                        candidateFooter)

formatPrCommentGraph(dead) ==
    IF isEmptyList(dead) THEN emptyReport
    ELSE LET rows == joinLines([k \in 1..Len(slice(dead, MaxTableRows)) |-> graphRow(dead[k])])
             body == <<reportTitle, EmptyString,
                          foundOpen \o toDecimal(Len(dead)) \o unusedFunction
                              \o plural(Len(dead)) \o <<":">>,
                          EmptyString, graphTableHeader, graphTableRule>> \o rows
         IN  withFooter(withMoreNote(body, Len(dead)), graphFooter)

----------------------------------------------------------------------------
(* pollForResult *)

MAX_POLL_ATTEMPTS == 90
DEFAULT_RETRY_INTERVAL_MS == 10000
POLL_TIMEOUT_MS == 15 * 60 * 1000

\* error?.response?.data and error?.body as the catch block reads them: the
\* message and error properties and, for data, the value itself as a string
\* (safeSerialize of it when it is an object); <<>> stands for undefined or ''
NoData == [message |-> <<>>, error |-> <<>>, text |-> <<>>]
NoBody == [message |-> <<>>, error |-> <<>>]

\* error.response
ErrorResponse(status, data) == [status |-> status, data |-> data]

\* an error object, with the properties the catch block of run reads
ErrorObject(message, status, statusCode, response, body) ==
    [message |-> message, status |-> status, statusCode |-> statusCode,
     response |-> response, body |-> body]

NoError == ErrorObject(<<>>, Undefined, Undefined, Undefined, NoBody)

\* new Error(message)
Error(message) == ErrorObject(message, Undefined, Undefined, Undefined, NoBody)

\* the error of a request answered with a status that is no success: it holds
\* the fetch response, which has a status and no data property
ResponseError(status) ==
    ErrorObject(<<"Response returned an error code">>, Undefined, Undefined,
                Some(ErrorResponse(Some(status), NoData)), NoBody)

\* the error of a GitHub request answered with an error status
RequestError(status, message) ==
    ErrorObject(message \o <<" - https://docs.github.com/rest">>, Some(status), Undefined,
                Some(ErrorResponse(Some(status),
                                   [message |-> message, error |-> <<>>,
                                    text |-> <<"{", "message:", "}">>])),
                NoBody)

\* how a call ended: it returned a value or threw an error
NoOutcome == [kind |-> "none", value |-> Undefined, error |-> NoError]
Returned(value) == [kind |-> "returned", value |-> Some(value), error |-> NoError]
Thrown(error) == [kind |-> "thrown", value |-> Undefined, error |-> error]

\* DeadCodeAnalysisResponseAsync
Response(status, result, error, retryAfter) ==
    [status |-> status, result |-> result, error |-> error, retryAfter |-> retryAfter,
     jobId |-> "job-1"]

NoResponse == Response("none", Undefined, Undefined, Undefined)

isCompleted_anyResult(response) == response.status = "completed"

\* response.status === 'completed' && response.result
isCompleted(response) == response.status = "completed" /\ IsDefined(response.result)

isFailed_never(response) == FALSE

isFailed_orNoResult(response) ==
    response.status = "failed" \/ (response.status = "completed" /\ ~IsDefined(response.result))

\* response.status === 'failed'
isFailed(response) == response.status = "failed"

\* `Analysis job failed: ${response.error || 'unknown error'}`
failedMessage(response) ==
    <<"Analysis job failed: ",
      IF IsDefined(response.error) /\ Value(response.error) # ""
      THEN Value(response.error) ELSE "unknown error">>

\* Math.round(ms / 1000) for ms >= 0
roundSeconds(ms) == (ms + 500) \div 1000

\* `Analysis timed out after ${Math.round(elapsed / 1000)}s (job: ${response.jobId})`
timedOutMessage(elapsed, response) ==
    <<"Analysis timed out after ">> \o toDecimal(roundSeconds(elapsed))
        \o <<"s (job: ", response.jobId, ")">>

\* `Analysis did not complete within ${MAX_POLL_ATTEMPTS} polling attempts`
exhaustedMessage ==
    <<"Analysis did not complete within ">> \o toDecimal(MAX_POLL_ATTEMPTS)
        \o <<" polling attempts">>

isTimedOut_strictly(elapsed) == elapsed > POLL_TIMEOUT_MS

\* elapsed >= POLL_TIMEOUT_MS
isTimedOut(elapsed) == elapsed >= POLL_TIMEOUT_MS

\* (response.retryAfter ?? DEFAULT_RETRY_INTERVAL_MS / 1000) * 1000
retryMsOf(response) ==
    (IF IsDefined(response.retryAfter) THEN Value(response.retryAfter)
     ELSE DEFAULT_RETRY_INTERVAL_MS \div 1000) * 1000

\* the body of the loop from the response to the sleep, p.now being Date.now()
afterResponse(p) ==
    IF isCompleted(p.response)
    THEN [p EXCEPT !.pc = "ended", !.outcome = Returned(Value(p.response.result))]
    ELSE IF isFailed(p.response)
    THEN [p EXCEPT !.pc = "ended", !.outcome = Thrown(Error(failedMessage(p.response)))]
    ELSE IF isTimedOut(p.now - p.startTime)
    THEN [p EXCEPT !.pc = "ended",
                   !.outcome = Thrown(Error(timedOutMessage(p.now - p.startTime, p.response)))]
    ELSE [p EXCEPT !.pc = "sleep", !.retryMs = retryMsOf(p.response)]

\* attempt++ and the test of the loop, after the sleep
afterSleep(p) ==
    LET q == [p EXCEPT !.attempt = @ + 1, !.response = NoResponse, !.retryMs = 0]
    IN  IF q.attempt <= MAX_POLL_ATTEMPTS THEN [q EXCEPT !.pc = "request"]
        ELSE [q EXCEPT !.pc = "ended", !.outcome = Thrown(Error(exhaustedMessage))]

requestOf_keyPerAttempt(p) ==
    [idempotencyKey |-> IF p.attempt = 1 THEN p.idempotencyKey ELSE "key-0", file |-> p.zipBlob]

\* { idempotencyKey, file: zipBlob }, the argument of api.generateDeadCodeAnalysis
requestOf(p) == [idempotencyKey |-> p.idempotencyKey, file |-> p.zipBlob]

PollIdle ==
    [pc |-> "idle", attempt |-> 1, startTime |-> 0, now |-> 0, response |-> NoResponse,
     retryMs |-> 0, requests |-> 0, outcome |-> NoOutcome,
     idempotencyKey |-> "", zipBlob |-> "", sent |-> {}, noResultSeen |-> FALSE]

----------------------------------------------------------------------------
(* run *)

RECURSIVE joinWith(_, _)
\* parts.join(separator)
joinWith(parts, separator) ==
    IF Len(parts) = 0 THEN <<>>
    ELSE IF Len(parts) = 1 THEN parts[1]
    ELSE parts[1] \o separator \o joinWith(Tail(parts), separator)

\* a string as JSON text: between double quotes, with '"', '\' and the newline escaped
jsonString(text) ==
    <<"\"">>
        \o replaceAll(replaceAll(replaceAll(text, "\\", <<"\\", "\\">>), "\"", <<"\\", "\"">>),
                      "\n", <<"\\", "n">>)
        \o <<"\"">>

jsonProperty(key, value) == jsonString(key) \o <<":">> \o value

\* JSON.stringify of a DeadCodeCandidate: its properties in the order of the
\* object, a property whose value is undefined left out
stringifyCandidate(c) ==
    <<"{">>
        \o joinWith(<<jsonProperty(<<"f","i","l","e">>, jsonString(c.file)),
                      jsonProperty(<<"n","a","m","e">>, jsonString(c.name))>>
                        \o (IF IsDefined(c.line)
                            THEN <<jsonProperty(<<"l","i","n","e">>, toDecimal(Value(c.line)))>>
                            ELSE <<>>)
                        \o <<jsonProperty(<<"t","y","p","e">>, jsonString(charsOf(c.type))),
                             jsonProperty(<<"c","o","n","f","i","d","e","n","c","e">>, jsonString(charsOf(c.confidence))),
                             jsonProperty(<<"r","e","a","s","o","n">>, jsonString(charsOf(c.reason)))>>,
                     <<",">>)
        \o <<"}">>

\* JSON.stringify(candidates)
stringify(cands) ==
    <<"[">> \o joinWith([k \in 1..Len(cands) |-> stringifyCandidate(cands[k])], <<",">>)
        \o <<"]">>

OutputNames == {"dead-code-count", "dead-code-json"}

setOutput_skipped(outputs, name, value) == outputs

\* core.setOutput(name, value), value as the text the runner is given
setOutput(outputs, name, value) == [outputs EXCEPT ![name] = Some(value)]

\* `Found ${candidates.length} potentially unused code elements`
foundMessage(n) == <<"Found ">> \o toDecimal(n) \o <<" potentially unused code elements">>

\* a || b for two numbers that may be undefined
orNumber(a, b) == IF IsDefined(a) /\ Value(a) # 0 THEN a ELSE b

\* error?.response?.status || error?.status || error?.statusCode, 0 standing
\* for a value that is undefined or 0
statusOf(error) ==
    LET responseStatus == IF IsDefined(error.response) THEN Value(error.response).status
                          ELSE Undefined
        status == orNumber(orNumber(responseStatus, error.status), error.statusCode)
    IN  IF IsDefined(status) THEN Value(status) ELSE 0

\* the first of the values that is not '' or undefined, '' if there is none
firstTruthy(values) ==
    LET truthy == SelectSeq(values, LAMBDA v : v # <<>>)
    IN  IF truthy = <<>> THEN <<>> ELSE truthy[1]

dataOf(error) == IF IsDefined(error.response) THEN Value(error.response).data ELSE NoData

apiMessageOf_messageFirst(error) ==
    firstTruthy(<<error.message, dataOf(error).message, dataOf(error).error, dataOf(error).text,
                  error.body.message, error.body.error>>)

\* error?.response?.data?.message || error?.response?.data?.error ||
\* error?.response?.data || error?.body?.message || error?.body?.error ||
\* error?.message || ''
apiMessageOf(error) ==
    firstTruthy(<<dataOf(error).message, dataOf(error).error, dataOf(error).text,
                  error.body.message, error.body.error, error.message>>)

\* the message the catch block gives core.setFailed
errorMessageOf(error) ==
    LET apiMessage == apiMessageOf(error)
        status == statusOf(error)
    IN  IF status = 401 THEN <<"Invalid API key">>
        ELSE IF status = 500
             THEN firstTruthy(<<apiMessage, <<"Internal server error">> >>)
        ELSE IF status = 413 THEN <<"Repository archive too large">>
        ELSE IF status = 429 THEN <<"Rate limit exceeded">>
        ELSE IF status # 0
             THEN firstTruthy(<<apiMessage, <<"API error (">> \o toDecimal(status) \o <<")">> >>)
        ELSE firstTruthy(<<apiMessage, error.message, <<"An unknown error occurred">> >>)

\* catch (error) { ... core.setFailed(errorMessage) }
catch(r, error) ==
    [r EXCEPT !.pc = "done", !.threw = TRUE, !.error = error,
              !.failed = Append(@, errorMessageOf(error))]

postsComment_unasked(commentOnPr, pullRequest, token) == pullRequest /\ token

\* commentOnPr && github.context.payload.pull_request, then token
postsComment(commentOnPr, pullRequest, token) == commentOnPr /\ pullRequest /\ token

\* steps 6 and 7 up to the next await: the outputs, then the comment if one is
\* to be posted, else the clean-up
afterScoping(r) ==
    LET counted == setOutput(r.outputs, "dead-code-count", toDecimal(Len(r.candidates)))
        written == setOutput(counted, "dead-code-json", stringify(r.candidates))
    IN  [r EXCEPT !.outputs = written,
                  !.pc = IF postsComment(r.commentOnPr, r.pullRequest, r.token)
                         THEN "comment" ELSE "unlink"]

scopesToPr_withoutToken(pullRequest, token) == pullRequest

\* github.context.payload.pull_request && token
scopesToPr(pullRequest, token) == pullRequest /\ token

\* steps 4 and 5 up to the next await, result being what pollForResult returned
afterPoll(r, result) ==
    LET q == [r EXCEPT !.result = result,
                       !.candidates = filterByIgnorePatterns(result.deadCodeCandidates,
                                                             r.ignorePatterns)]
    IN  IF scopesToPr(q.pullRequest, q.token) THEN [q EXCEPT !.pc = "changed"]
        ELSE afterScoping(q)

\* step 5 after getChangedFiles returned files
afterChangedFiles(r, files) ==
    afterScoping([r EXCEPT !.changedFiles = Some(files),
                           !.candidates = filterByChangedFiles(@, files)])

\* step 7 after the comment was created
afterComment(r) ==
    [r EXCEPT !.comments = Append(@, formatPrComment(r.candidates, Some(r.result.metadata))),
              !.pc = "unlink"]

failsOnDeadCode_anyFlag(cands, failOnDeadCode) == Len(cands) > 0

\* candidates.length > 0 && failOnDeadCode
failsOnDeadCode(cands, failOnDeadCode) == Len(cands) > 0 /\ failOnDeadCode

\* steps 8 and 9 after the archive was deleted
afterUnlink(r) ==
    [r EXCEPT !.zipExists = FALSE,
              !.failed = IF failsOnDeadCode(r.candidates, r.failOnDeadCode)
                         THEN Append(@, foundMessage(Len(r.candidates))) ELSE @,
              !.pc = "done"]

NoResult ==
    [deadCodeCandidates |-> <<>>,
     metadata |-> [totalDeclarations |-> 0, deadCodeCandidates |-> 0, aliveCode |-> 0,
                   analysisMethod |-> EmptyString, transitiveDeadCount |-> Undefined,
                   symbolLevelDeadCount |-> Undefined]]

RunIdle ==
    [pc |-> "idle", commentOnPr |-> FALSE, failOnDeadCode |-> FALSE, ignorePatterns |-> <<>>,
     pullRequest |-> FALSE, token |-> FALSE, result |-> NoResult, candidates |-> <<>>,
     changedFiles |-> Undefined, outputs |-> [n \in OutputNames |-> Undefined],
     comments |-> <<>>, zipExists |-> FALSE, failed |-> <<>>, threw |-> FALSE,
     error |-> NoError, archiveCreated |-> FALSE]

(* getChangedFiles *)

\* per_page: 100 and files.length < 100
PER_PAGE == 100

\* the parameters of octokit.rest.pulls.listFiles that vary
listFilesRequest(page) == [per_page |-> PER_PAGE, page |-> page]

\* an entry of a page of the listing
ChangedFile(filename) == [filename |-> filename]

isLastPage_atMost(files) == Len(files) <= PER_PAGE

\* files.length < 100
isLastPage(files) == Len(files) < PER_PAGE

\* for (const file of files) changedFiles.add(file.filename)
addAll(set, files) == set \cup {files[i].filename : i \in 1..Len(files)}

\* const pr = ...; if (!pr) return null; ... new Set()
enterGetChangedFiles(l) ==
    IF ~l.pullRequest THEN [l EXCEPT !.pc = "ended", !.returned = "null"]
    ELSE [l EXCEPT !.pc = "request", !.page = 1, !.changedFiles = {}]

\* the body of the loop from the answer of listFiles on, page++ and the return
afterListFiles(l, files) ==
    LET m == [l EXCEPT !.changedFiles = addAll(@, files)]
    IN  IF isLastPage(files) THEN [m EXCEPT !.pc = "ended", !.returned = "set"]
        ELSE [m EXCEPT !.page = @ + 1]

\* no call of getChangedFiles: requested and fetched are the requests it has
\* made and the pages it was answered with
ListingIdle ==
    [pc |-> "idle", pullRequest |-> FALSE, page |-> 1, changedFiles |-> {},
     requested |-> <<>>, fetched |-> <<>>, returned |-> "nothing"]

orchestratorVars == <<poll, run, listing>>

NoOrchestratorCall == poll = PollIdle /\ run = RunIdle /\ listing = ListingIdle

MaxNodes == 2         \* nodes in a graph
MaxRels == 1          \* relationships in a graph
MaxPatterns == 1      \* caller-supplied ignore patterns of findDeadCode, every path
MaxCandidates == 2    \* candidates handed to filterByIgnorePatterns
MaxFilterPatterns == 2 \* patterns handed to filterByIgnorePatterns

SeqsUpTo(S, n) == UNION {[1..m -> S] : m \in 0..n}

\* --- function names: a roster word or another word, in one of four casings,
\* bare or with a letter before or after it
NameWords ==
    {ENTRY_POINT_FUNCTION_NAMES[k] : k \in 1..Len(ENTRY_POINT_FUNCTION_NAMES)}
        \cup {helper, processData}

Capitalised(w) == IF Len(w) = 0 THEN w ELSE <<toUpperChar(w[1])>> \o Tail(toLowerCase(w))

Casings(w) == {w, toLowerCase(w), toUpperCase(w), Capitalised(w)}

Affixed(w) == {w, <<"x">> \o w, w \o <<"s">>}

NameDomain == UNION {UNION {Affixed(c) : c \in Casings(w)} : w \in NameWords}

\* --- nodes
Props(name, filePath, file, exported, isExported, startLine, endLine) ==
    [name |-> name, filePath |-> filePath, file |-> file, exported |-> exported,
     isExported |-> isExported, startLine |-> startLine, endLine |-> endLine]

Node(id, labels, properties) == [id |-> id, labels |-> labels, properties |-> properties]

FunctionLabels == Some(<<"Function">>)

\* a function node that has a name, a path and nothing else
PlainFunction(id, name, filePath) ==
    Node(id, FunctionLabels,
         Some(Props(Some(name), Some(filePath), Undefined, Undefined, Undefined,
                    Undefined, Undefined)))

\* the node under study of a general graph: every combination of a path, a
\* name and the two exported flags ...
ProductProbes ==
    {Node("f1", FunctionLabels,
          Some(Props(n, p, Undefined, e[1], e[2], Undefined, Undefined))) :
        n \in {Undefined, Some(helper), Some(Main)},
        p \in {Undefined, Some(srcUtilsTs), Some(srcIndexTs), Some(distXJs)},
        e \in {<<Undefined, Undefined>>, <<Some(TRUE), Undefined>>,
               <<Some(FALSE), Undefined>>, <<Undefined, Some(TRUE)>>}}

\* ... and nodes that lack properties or labels, use the `file` alias, carry
\* line numbers or lie in a path that only a caller-supplied pattern matches
SpecialProbes ==
    {Node("f1", FunctionLabels, Undefined),
     Node("f1", Undefined,
          Some(Props(Some(helper), Some(srcUtilsTs), Undefined, Undefined, Undefined,
                     Undefined, Undefined))),
     Node("f1", Some(<<"File", "Function">>),
          Some(Props(Some(helper), Some(srcUtilsTs), Undefined, Undefined, Undefined,
                     Undefined, Undefined))),
     Node("f1", Some(<<"Method">>),
          Some(Props(Some(helper), Some(srcUtilsTs), Undefined, Undefined, Undefined,
                     Undefined, Undefined))),
     Node("f1", FunctionLabels,
          Some(Props(Some(helper), Undefined, Some(srcIndexTs), Undefined, Undefined,
                     Undefined, Undefined))),
     Node("f1", FunctionLabels,
          Some(Props(Some(helper), Some(EmptyString), Some(libHelpersTs), Undefined,
                     Undefined, Undefined, Undefined))),
     Node("f1", FunctionLabels,
          Some(Props(Some(helper), Some(srcUtilsTs), Some(srcIndexTs), Undefined,
                     Undefined, Undefined, Undefined))),
     Node("f1", FunctionLabels,
          Some(Props(Some(EmptyString), Some(EmptyString), Undefined, Undefined,
                     Undefined, Undefined, Undefined))),
     Node("f1", FunctionLabels,
          Some(Props(Some(helper), Some(srcUtilsTs), Undefined, Undefined, Undefined,
                     Some(10), Some(20)))),
     Node("f1", FunctionLabels,
          Some(Props(Some(helper), Some(srcUtilsTs), Undefined, Some(FALSE), Some(TRUE),
                     Undefined, Undefined))),
     Node("f1", FunctionLabels,
          Some(Props(Some(helper), Some(srcGeneratedApiTs), Undefined, Undefined,
                     Undefined, Undefined, Undefined)))}

ProbeNodes == ProductProbes \cup SpecialProbes

\* the other nodes of a general graph: a function nobody calls and a File node
ContextNodes ==
    {Node("c1", FunctionLabels,
          Some(Props(Some(ctxFn), Some(libHelpersTs), Undefined, Undefined, Undefined,
                     Some(5), Some(7)))),
     Node("c2", Some(<<"File">>),
          Some(Props(Some(helper), Some(srcUtilsTs), Undefined, Undefined, Undefined,
                     Undefined, Undefined)))}

Rel(type, startNode, endNode) == [type |-> type, startNode |-> startNode, endNode |-> endNode]

RelDomain == {Rel("calls", "c1", "f1"), Rel("imports", "c1", "f1"), Rel("calls", "f1", "c1")}

\* graphs of up to MaxNodes nodes: one probe at any position among context nodes
GeneralGraphs ==
    {<<>>} \cup
    UNION {UNION {{[j \in 1..n |-> IF j = k THEN probe ELSE ctx[j]] :
                      probe \in ProbeNodes, ctx \in [1..n -> ContextNodes]} :
                  k \in 1..n} : n \in 1..MaxNodes}

\* a permutation of the five skip checks
CheckOrders == {[k \in 1..Len(CodeOrder) |-> CodeOrder[p[k]]] :
                   p \in Permutations(1..Len(CodeOrder))}

\* nodes for which every combination of the four checks on the node itself holds
OrderProbes ==
    {Node("f1", FunctionLabels,
          Some(Props(Some(n), Some(p), Undefined, e, Undefined, Undefined, Undefined))) :
        n \in {helper, Main},
        p \in {srcUtilsTs, srcIndexTs, distXJs, srcTestsHTs},
        e \in {Undefined, Some(TRUE)}}

\* --- candidates
Candidate(file, name) ==
    [file |-> file, name |-> name, line |-> Some(10), type |-> "function",
     confidence |-> "high", reason |-> "No callers found in codebase"]

CandidateDomain ==
    {Candidate(f, helper) : f \in {srcUtilsTs, srcGeneratedApiTs, libHelpersTs, cfgIndexTs}}
        \cup {Candidate(srcUtilsTs, ctxFn)}

ChangedFileDomain ==
    {srcUtilsTs, srcGeneratedApiTs, libHelpersTs, srcStarTsGlob, generatedGlob}

----------------------------------------------------------------------------
(* The classifier: findDeadCode called once on a graph *)

NoFilterCall == candidates = <<>> /\ filtered = <<>> /\ changedFiles = {}

NoFormatCall == metadata = Undefined /\ comment = <<>>

\* general graphs
InitGeneral ==
    /\ nodes \in GeneralGraphs
    /\ relationships \in SeqsUpTo(RelDomain, MaxRels)
    /\ ignorePatterns \in {<<>>, <<generatedGlob>>, <<EmptyString>>}
    /\ order = CodeOrder

\* one function node, every name
InitNames ==
    /\ \E name \in NameDomain : nodes = <<PlainFunction("f1", name, srcUtilsTs)>>
    /\ relationships = <<>>
    /\ ignorePatterns = <<>>
    /\ order = CodeOrder

\* one function node, every path, with caller-supplied patterns
InitPaths ==
    /\ \E filePath \in PathDomain : nodes = <<PlainFunction("f1", helper, filePath)>>
    /\ relationships = <<>>
    /\ ignorePatterns \in SeqsUpTo(CallerPatterns, MaxPatterns)
    /\ order = CodeOrder

\* the skip checks in every order
InitOrders ==
    /\ \E probe \in OrderProbes :
         nodes \in {<<probe>>, <<probe, PlainFunction("c1", ctxFn, libHelpersTs)>>}
    /\ relationships \in {<<>>, <<Rel("calls", "c1", "f1")>>}
    /\ ignorePatterns = <<>>
    /\ order \in CheckOrders

\* who calls f1: itself, a function nobody calls, a function it calls, an id
\* that no node has
CallerLists ==
    {<<Rel("calls", "f1", "f1")>>,
     <<Rel("calls", "c1", "f1")>>,
     <<Rel("calls", "c1", "f1"), Rel("calls", "f1", "c1")>>,
     <<Rel("calls", "x1", "f1")>>,
     <<Rel("imports", "f1", "f1"), Rel("calls", "x1", "c1")>>}

\* one or two function nodes and the callers of f1
InitCallers ==
    /\ \E filePath \in {srcUtilsTs, srcIndexTs} :
         nodes \in {<<PlainFunction("f1", helper, filePath)>>,
                    <<PlainFunction("f1", helper, filePath),
                      PlainFunction("c1", ctxFn, libHelpersTs)>>,
                    <<PlainFunction("c1", ctxFn, libHelpersTs),
                      PlainFunction("f1", helper, filePath)>>}
    /\ relationships \in CallerLists
    /\ ignorePatterns = <<>>
    /\ order = CodeOrder

Init ==
    /\ InitGeneral \/ InitNames \/ InitPaths \/ InitOrders \/ InitCallers
    /\ deadCode = <<>>
    /\ NoFilterCall
    /\ NoFormatCall
    /\ NoOrchestratorCall
    /\ pc = "call"

\* deadCode = findDeadCode(nodes, relationships, ignorePatterns), its skip
\* checks taken in the order `order` (the order of the source but in InitOrders)
FindDeadCode ==
    /\ pc = "call"
    /\ deadCode' = findDeadCodeIn(order, nodes, relationships, ignorePatterns)
    /\ pc' = "done"
    /\ UNCHANGED <<nodes, relationships, ignorePatterns, order, candidates, filtered>>
    /\ UNCHANGED <<changedFiles, metadata, comment, orchestratorVars>>

Next == FindDeadCode

Spec == Init /\ [][Next]_vars

----------------------------------------------------------------------------
(* The filter stage: filterByIgnorePatterns called once *)

InitFilter ==
    /\ candidates \in SeqsUpTo(CandidateDomain, MaxCandidates)
    /\ ignorePatterns \in SeqsUpTo(CallerPatterns, MaxFilterPatterns)
    /\ changedFiles = {}
    /\ filtered = <<>>
    /\ nodes = <<>> /\ relationships = <<>> /\ order = CodeOrder /\ deadCode = <<>>
    /\ NoFormatCall
    /\ NoOrchestratorCall
    /\ pc = "call"

FilterByIgnorePatterns ==
    /\ pc = "call"
    /\ filtered' = filterByIgnorePatterns(candidates, ignorePatterns)
    /\ pc' = "done"
    /\ UNCHANGED <<nodes, relationships, ignorePatterns, order, deadCode, candidates>>
    /\ UNCHANGED <<changedFiles, metadata, comment, orchestratorVars>>

NextFilter == FilterByIgnorePatterns

SpecFilter == InitFilter /\ [][NextFilter]_vars

----------------------------------------------------------------------------
(* The scoping stage: filterByChangedFiles called once *)

\* sets of changed file names; two of the names are shaped like globs that
\* would match candidate files
InitScope ==
    /\ candidates \in SeqsUpTo(CandidateDomain, MaxCandidates)
    /\ changedFiles \in SUBSET ChangedFileDomain
    /\ ignorePatterns = <<>>
    /\ filtered = <<>>
    /\ nodes = <<>> /\ relationships = <<>> /\ order = CodeOrder /\ deadCode = <<>>
    /\ NoFormatCall
    /\ NoOrchestratorCall
    /\ pc = "call"

FilterByChangedFiles ==
    /\ pc = "call"
    /\ filtered' = filterByChangedFiles(candidates, changedFiles)
    /\ pc' = "scoped"
    /\ UNCHANGED <<nodes, relationships, ignorePatterns, order, deadCode, candidates>>
    /\ UNCHANGED <<changedFiles, metadata, comment, orchestratorVars>>

NextScope == FilterByChangedFiles

SpecScope == InitScope /\ [][NextScope]_vars

\* either filter called once on either family of inputs
InitFilters == InitFilter \/ InitScope

NextFilters == FilterByIgnorePatterns \/ FilterByChangedFiles

SpecFilters == InitFilters /\ [][NextFilters]_vars

----------------------------------------------------------------------------
(* The report stage: formatPrComment called once, in candidate mode on
   (candidates, metadata) or in graph mode on deadCode *)

\* 'parse_graph + call_graph'
parseGraphCallGraph ==
    <<"p","a","r","s","e","_","g","r","a","p","h"," ","+"," ","c","a","l","l","_","g","r","a","p","h">>

\* 'unusedFn'
unusedFn ==
    <<"u","n","u","s","e","d","F","n">>

\* 'a|b'
pipeName ==
    <<"a","|","b">>

\* 'a\nb|'
newlineName ==
    <<"a","\n","b","|">>

\* 'a\|b'
backslashPipeName ==
    <<"a","\\","|","b">>

\* 'fn'
fnPrefix ==
    <<"f","n">>

\* 'src/file'
srcFile ==
    <<"s","r","c","/","f","i","l","e">>

\* '.ts'
dotTs ==
    <<".","t","s">>

\* 'src/a|b.ts'
pipeFile ==
    <<"s","r","c","/","a","|","b",".","t","s">>

MaxListed == 52
MaxProbed == 1

DeadCodeCandidate(file, name, line, type, confidence) ==
    [file |-> file, name |-> name, line |-> line, type |-> type,
     confidence |-> confidence, reason |-> "No callers found in codebase"]

\* makeCandidate({ name: `fn${i}`, file: `src/file${i}.ts`, line: i + 1 })
listedCandidate(i) ==
    DeadCodeCandidate(srcFile \o toDecimal(i) \o dotTs, fnPrefix \o toDecimal(i), Some(i + 1),
                      "function", "high")

\* Array.from({ length: n }, (_, i) => ...)
ListedCandidates(n) == [k \in 1..n |-> listedCandidate(k - 1)]

ProbeNames == {unusedFn, pipeName, newlineName, backslashPipeName}
ProbeFiles == {srcUtilsTs, pipeFile}
ProbeLines == {Undefined, Some(0), Some(10)}

CandidateProbes ==
    {DeadCodeCandidate(f, n, l, "function", "high") :
         f \in ProbeFiles, n \in ProbeNames, l \in ProbeLines}
        \cup {DeadCodeCandidate(srcUtilsTs, unusedFn, Some(10), "class", c) :
                  c \in {"medium", "low"}}

CandidateLists ==
    {ListedCandidates(n) : n \in 0..MaxListed}
        \cup SeqsUpTo(CandidateProbes, MaxProbed)
        \cup {<<listedCandidate(0)>> \o q : q \in SeqsUpTo(CandidateProbes, MaxProbed)}

DeadCodeAnalysisMetadata(total, transitive, symbolLevel) ==
    [totalDeclarations |-> total, deadCodeCandidates |-> 5, aliveCode |-> 95,
     analysisMethod |-> parseGraphCallGraph,
     transitiveDeadCount |-> transitive, symbolLevelDeadCount |-> symbolLevel]

OptionalCounts == {Undefined, Some(0), Some(3)}

MetadataDomain ==
    {Undefined}
        \cup {Some(DeadCodeAnalysisMetadata(100, t, s)) : t \in OptionalCounts, s \in OptionalCounts}

listedResult(i) ==
    [id |-> "f1", name |-> fnPrefix \o toDecimal(i), filePath |-> srcFile \o toDecimal(i) \o dotTs,
     startLine |-> Some(i + 1), endLine |-> Some(i + 2)]

ListedResults(n) == [k \in 1..n |-> listedResult(k - 1)]

ResultProbes ==
    {[id |-> "f1", name |-> n, filePath |-> srcUtilsTs, startLine |-> l, endLine |-> l] :
         n \in {helper, pipeName}, l \in ProbeLines}

ResultLists ==
    {ListedResults(n) : n \in 0..MaxListed} \cup SeqsUpTo(ResultProbes, MaxProbed)

NoClassifierCall ==
    nodes = <<>> /\ relationships = <<>> /\ order = CodeOrder /\ ignorePatterns = <<>>

InitFormatCandidates ==
    /\ candidates \in CandidateLists
    /\ metadata \in MetadataDomain
    /\ deadCode = <<>>
    /\ pc = "callFormat"

InitFormatGraph ==
    /\ deadCode \in ResultLists
    /\ candidates = <<>>
    /\ metadata = Undefined
    /\ pc = "callFormatGraph"

InitFormat ==
    /\ InitFormatCandidates \/ InitFormatGraph
    /\ comment = <<>>
    /\ NoClassifierCall
    /\ filtered = <<>> /\ changedFiles = {}
    /\ NoOrchestratorCall

\* comment = formatPrComment(candidates, metadata) of the candidate mode
FormatPrComment ==
    /\ pc = "callFormat"
    /\ comment' = formatPrComment(candidates, metadata)
    /\ pc' = "formatted"
    /\ UNCHANGED <<nodes, relationships, ignorePatterns, order, deadCode, candidates, filtered,
                   changedFiles, metadata, orchestratorVars>>

\* comment = formatPrComment(deadCode) of the graph mode
FormatPrCommentGraph ==
    /\ pc = "callFormatGraph"
    /\ comment' = formatPrCommentGraph(deadCode)
    /\ pc' = "formattedGraph"
    /\ UNCHANGED <<nodes, relationships, ignorePatterns, order, deadCode, candidates, filtered,
                   changedFiles, metadata, orchestratorVars>>

NextFormat == FormatPrComment \/ FormatPrCommentGraph

SpecFormat == InitFormat /\ [][NextFormat]_vars

----------------------------------------------------------------------------
(* The polling stage: pollForResult called once; the server answers each
   request as it likes, the clock moves while a request or a sleep is pending *)

\* milliseconds a request can take
RequestDurations == {0, 5000}

\* response.retryAfter, in seconds
RetryAfters == {Undefined, Some(0), Some(600)}

Responses ==
    {Response(s, Undefined, Undefined, r) : s \in {"pending", "processing"}, r \in RetryAfters}
        \cup {Response("completed", r, Undefined, Undefined) :
                  r \in {Undefined, Some("result-1"), Some("result-2")}}
        \cup {Response("failed", Undefined, e, Undefined) :
                  e \in {Undefined, Some(""), Some("out of memory")}}

\* what a request that is not answered with a success throws
RequestErrors == {ResponseError(s) : s \in {401, 429, 500}} \cup {Error(<<"fetch failed">>)}

\* the keys and archives pollForResult is called with, one run having the
\* first key and archive and another run the second
IdempotencyKeys == {"repo:analysis:deadcode:abc1234:uuid-1", "repo:analysis:deadcode:abc1234:uuid-2"}
ZipBlobs == {"zip-1", "zip-2"}

InitPoll ==
    /\ \E key \in IdempotencyKeys, blob \in ZipBlobs :
         /\ (key = "repo:analysis:deadcode:abc1234:uuid-1") = (blob = "zip-1")
         /\ poll = [PollIdle EXCEPT !.pc = "request", !.idempotencyKey = key, !.zipBlob = blob]
    /\ run = RunIdle
    /\ listing = ListingIdle
    /\ NoClassifierCall /\ deadCode = <<>>
    /\ NoFilterCall
    /\ NoFormatCall
    /\ pc = "poll"

\* await api.generateDeadCodeAnalysis(...) rejects: the error leaves pollForResult
RequestRejects ==
    /\ poll.pc = "request"
    /\ \E d \in RequestDurations, e \in RequestErrors :
         poll' = [poll EXCEPT !.pc = "ended", !.now = @ + d, !.requests = @ + 1,
                              !.sent = @ \cup {requestOf(poll)},
                              !.outcome = Thrown(e)]
    /\ UNCHANGED <<nodes, relationships, ignorePatterns, order, deadCode, candidates, filtered,
                   changedFiles, metadata, comment, run, listing, pc>>

\* await api.generateDeadCodeAnalysis(...) resolves, and the loop body runs up
\* to its return, its throw or its sleep
RequestResolves ==
    /\ poll.pc = "request"
    /\ \E d \in RequestDurations, response \in Responses :
         poll' = afterResponse([poll EXCEPT
                                   !.now = @ + d, !.requests = @ + 1,
                                   !.sent = @ \cup {requestOf(poll)},
                                   !.response = response,
                                   !.noResultSeen = @ \/ (response.status = "completed"
                                                           /\ response.result = Undefined)])
    /\ UNCHANGED <<nodes, relationships, ignorePatterns, order, deadCode, candidates, filtered,
                   changedFiles, metadata, comment, run, listing, pc>>

\* await sleep(retryMs) resolves, and the loop goes round or ends
SleepResolves ==
    /\ poll.pc = "sleep"
    /\ poll' = afterSleep([poll EXCEPT !.now = @ + poll.retryMs])
    /\ UNCHANGED <<nodes, relationships, ignorePatterns, order, deadCode, candidates, filtered,
                   changedFiles, metadata, comment, run, listing, pc>>

NextPoll == RequestRejects \/ RequestResolves \/ SleepResolves

SpecPoll == InitPoll /\ [][NextPoll]_vars

----------------------------------------------------------------------------
(* The orchestrator: run called once; pollForResult and getChangedFiles are
   taken by their outcomes *)

MaxRunCandidates == 2

\* 'say"hi"'
quotedName ==
    <<"s","a","y","\"","h","i","\"">>

RunCandidateDomain ==
    {Candidate(srcUtilsTs, helper), Candidate(srcGeneratedApiTs, helper),
     DeadCodeCandidate(libHelpersTs, quotedName, Undefined, "function", "low")}

Results ==
    {[deadCodeCandidates |-> l, metadata |-> DeadCodeAnalysisMetadata(100, Undefined, Some(0))] :
         l \in SeqsUpTo(RunCandidateDomain, MaxRunCandidates)}

ChangedFileSets == {{}, {srcUtilsTs}, {srcUtilsTs, srcGeneratedApiTs, libHelpersTs}}

\* what pollForResult throws
PollErrors ==
    RequestErrors
        \cup {Error(failedMessage(Response("failed", Undefined, Undefined, Undefined))),
              Error(timedOutMessage(POLL_TIMEOUT_MS, Response("pending", Undefined, Undefined,
                                                              Undefined))),
              Error(exhaustedMessage)}

\* error objects of the other shapes the catch block provides for
OtherErrors ==
    {Error(<<"step failed">>), Error(<<>>),
     ErrorObject(<<>>, Some(500), Undefined, Undefined, NoBody),
     ErrorObject(<<>>, Undefined, Some(418), Undefined, NoBody),
     ErrorObject(<<"too large">>, Undefined, Some(413), Undefined, NoBody),
     ErrorObject(<<"bad gateway">>, Some(502), Undefined, Undefined,
                 [message |-> <<>>, error |-> <<"upstream failed">>]),
     ErrorObject(<<"rejected">>, Undefined, Undefined, Undefined,
                 [message |-> <<"body message">>, error |-> <<"body error">>]),
     ErrorObject(<<"server error">>, Undefined, Undefined,
                 Some(ErrorResponse(Some(500), [message |-> <<>>,
                                                error |-> <<"Nested archives found">>,
                                                text |-> <<"{", "error:", "}">>])),
                 NoBody),
     ErrorObject(<<"unavailable">>, Some(503), Undefined,
                 Some(ErrorResponse(Undefined, [message |-> <<>>, error |-> <<>>,
                                                text |-> <<"Service Unavailable">>])),
                 NoBody)}

\* what the other steps throw: a failed command or file operation, a GitHub
\* request answered with an error status
StepErrors(at) ==
    IF at = "poll" THEN PollErrors
    ELSE IF at \in {"changed", "comment"}
         THEN {RequestError(403, <<"Resource not accessible by integration">>),
               Error(<<"fetch failed">>)}
         ELSE OtherErrors

InitRun ==
    /\ \E commentOnPr \in BOOLEAN, failOnDeadCode \in BOOLEAN, pullRequest \in BOOLEAN,
          token \in BOOLEAN, patterns \in {<<>>, <<generatedGlob>>} :
         run = [RunIdle EXCEPT !.pc = "start", !.commentOnPr = commentOnPr,
                               !.failOnDeadCode = failOnDeadCode, !.ignorePatterns = patterns,
                               !.pullRequest = pullRequest, !.token = token]
    /\ poll = PollIdle
    /\ listing = ListingIdle
    /\ NoClassifierCall /\ deadCode = <<>>
    /\ NoFilterCall
    /\ NoFormatCall
    /\ pc = "run"

RunFrame ==
    UNCHANGED <<nodes, relationships, ignorePatterns, order, deadCode, candidates, filtered,
                changedFiles, metadata, comment, poll, listing, pc>>

\* the inputs are read, createZipArchive is called
InputsRead ==
    /\ run.pc = "start"
    /\ run' = [run EXCEPT !.pc = "zip"]
    /\ RunFrame

\* step 1: createZipArchive returned
ZipCreated ==
    /\ run.pc = "zip"
    /\ run' = [run EXCEPT !.zipExists = TRUE, !.archiveCreated = TRUE, !.pc = "key"]
    /\ RunFrame

\* step 2: generateIdempotencyKey returned
KeyGenerated ==
    /\ run.pc = "key"
    /\ run' = [run EXCEPT !.pc = "read"]
    /\ RunFrame

\* step 3: fs.readFile returned, pollForResult is called
ArchiveRead ==
    /\ run.pc = "read"
    /\ run' = [run EXCEPT !.pc = "poll"]
    /\ RunFrame

\* step 3: pollForResult returned
PollReturned ==
    /\ run.pc = "poll"
    /\ \E result \in Results : run' = afterPoll(run, result)
    /\ RunFrame

\* step 5: getChangedFiles returned
ChangedFilesFetched ==
    /\ run.pc = "changed"
    /\ \E files \in ChangedFileSets : run' = afterChangedFiles(run, files)
    /\ RunFrame

\* step 7: createComment returned
CommentPosted ==
    /\ run.pc = "comment"
    /\ run' = afterComment(run)
    /\ RunFrame

\* step 8: fs.unlink returned
ArchiveDeleted ==
    /\ run.pc = "unlink"
    /\ run' = afterUnlink(run)
    /\ RunFrame

\* the step run is waiting for throws; git archive may have written the file
StepThrows ==
    /\ run.pc \in {"start", "zip", "key", "read", "poll", "changed", "comment", "unlink"}
    /\ \E error \in StepErrors(run.pc), written \in BOOLEAN :
         run' = catch([run EXCEPT !.zipExists = IF run.pc = "zip" THEN written ELSE @], error)
    /\ RunFrame

NextRun ==
    \/ InputsRead \/ ZipCreated \/ KeyGenerated \/ ArchiveRead \/ PollReturned
    \/ ChangedFilesFetched \/ CommentPosted \/ ArchiveDeleted \/ StepThrows

SpecRun == InitRun /\ [][NextRun]_vars

----------------------------------------------------------------------------
(* getChangedFiles against every listing of at most MaxPages pages *)

MaxPages == 3         \* pages of a listing

ListedNames == {srcUtilsTs, libHelpersTs}

\* the pages the server answers with: short ones, pages one entry short of
\* full, and full ones
ShortPages ==
    {<<>>} \cup {<<ChangedFile(f)>> : f \in ListedNames}
           \cup {<<ChangedFile(f), ChangedFile(g)>> : f \in ListedNames, g \in ListedNames}
           \cup {[i \in 1..(PER_PAGE - 1) |-> ChangedFile(f)] : f \in ListedNames}

FullPages ==
    {[i \in 1..PER_PAGE |-> ChangedFile(IF i = 1 THEN f ELSE g)] :
         f \in ListedNames, g \in ListedNames}

\* the listing ends on page MaxPages at the latest
PagesAt(page) == IF page < MaxPages THEN ShortPages \cup FullPages ELSE ShortPages

ListingFrame ==
    UNCHANGED <<nodes, relationships, ignorePatterns, order, deadCode, candidates, filtered,
                changedFiles, metadata, comment, poll, run, pc>>

InitChanged ==
    /\ \E pullRequest \in BOOLEAN :
         listing = [ListingIdle EXCEPT !.pc = "start", !.pullRequest = pullRequest]
    /\ poll = PollIdle
    /\ run = RunIdle
    /\ NoClassifierCall /\ deadCode = <<>>
    /\ NoFilterCall
    /\ NoFormatCall
    /\ pc = "getChangedFiles"

\* getChangedFiles(token) runs up to its first request or its return of null
GetChangedFiles ==
    /\ listing.pc = "start"
    /\ listing' = enterGetChangedFiles(listing)
    /\ ListingFrame

\* await octokit.rest.pulls.listFiles(...) resolves
ListFilesResolves ==
    /\ listing.pc = "request"
    /\ \E files \in PagesAt(listing.page) :
         listing' = afterListFiles([listing EXCEPT
                                        !.requested = Append(@, listFilesRequest(listing.page)),
                                        !.fetched = Append(@, files)], files)
    /\ ListingFrame

\* await octokit.rest.pulls.listFiles(...) rejects: the error leaves getChangedFiles
ListFilesRejects ==
    /\ listing.pc = "request"
    /\ listing' = [listing EXCEPT !.pc = "ended", !.returned = "thrown",
                                  !.requested = Append(@, listFilesRequest(listing.page))]
    /\ ListingFrame

NextChanged == GetChangedFiles \/ ListFilesResolves \/ ListFilesRejects

SpecChanged == InitChanged /\ [][NextChanged]_vars

----------------------------------------------------------------------------
(* Vocabulary of the properties *)

Done == pc = "done"

SeqToSet(q) == {q[k] : k \in 1..Len(q)}

\* the ids that are the endNode of a relationship of type 'calls'
CalledIds == {r.endNode : r \in {x \in SeqToSet(relationships) : x.type = "calls"}}

HasFunctionLabel(node) ==
    IsDefined(node.labels) /\ "Function" \in SeqToSet(Value(node.labels))

FunctionNodes == {n \in SeqToSet(nodes) : HasFunctionLabel(n)}

ReportedIds == {deadCode[k].id : k \in 1..Len(deadCode)}

MatchesAny(filePath, patternSet) == \E p \in patternSet : minimatch(filePath, p)

DefaultExcludes == SeqToSet(DEFAULT_EXCLUDE_PATTERNS)
EntryPointGlobs == SeqToSet(ENTRY_POINT_PATTERNS)
Roster == SeqToSet(ENTRY_POINT_FUNCTION_NAMES)

\* two strings that differ at most in the case of their letters
EqualIgnoringCase(a, b) ==
    /\ Len(a) = Len(b)
    /\ \A k \in 1..Len(a) : a[k] = b[k] \/ toUpperChar(a[k]) = b[k] \/ a[k] = toUpperChar(b[k])

InRoster(name) == \E w \in Roster : EqualIgnoringCase(name, w)

\* the five exclusion predicates of a node, stated on the inputs
PredCalled(n)    == n.id \in CalledIds
PredIgnored(n)   == MatchesAny(filePathOf(n), DefaultExcludes \cup SeqToSet(ignorePatterns))
PredEntryFile(n) == MatchesAny(filePathOf(n), EntryPointGlobs)
PredEntryName(n) == InRoster(nameOf(n))
PredExported(n)  == propsOf(n).exported = Some(TRUE) \/ propsOf(n).isExported = Some(TRUE)

Excluded(n) ==
    PredCalled(n) \/ PredIgnored(n) \/ PredEntryFile(n) \/ PredEntryName(n) \/ PredExported(n)

Survives(n) == HasFunctionLabel(n) /\ ~Excluded(n)

\* C1: no node that is the endNode of a 'calls' relationship is in the result,
\* whatever its name, path or exported flag.
C1_CalledNeverReported ==
    Done => \A k \in 1..Len(deadCode) :
                \A j \in 1..Len(relationships) :
                    ~(relationships[j].type = "calls"
                      /\ relationships[j].endNode = deadCode[k].id)

\* a called function node that no other predicate excludes, left out of the result
C1_Witness ==
    /\ Done
    /\ \E n \in FunctionNodes :
         /\ PredCalled(n)
         /\ ~PredIgnored(n) /\ ~PredEntryFile(n) /\ ~PredEntryName(n) /\ ~PredExported(n)
         /\ n.id \notin ReportedIds

\* C2: the result holds exactly one finding for each input node that is labelled
\* Function and meets none of the five exclusion predicates, in input order, and
\* nothing else; each finding carries the node's id, name, path, startLine, endLine.
C2_ExactlySurvivors ==
    Done =>
        LET expected == SelectSeq(nodes, Survives)
        IN  /\ Len(deadCode) = Len(expected)
            /\ \A k \in 1..Len(expected) :
                 LET n == expected[k]
                     d == deadCode[k]
                 IN  /\ d.id = n.id
                     /\ d.startLine = propsOf(n).startLine
                     /\ d.endLine = propsOf(n).endLine
                     /\ TruthyString(propsOf(n).name) => d.name = Value(propsOf(n).name)
                     /\ TruthyString(propsOf(n).filePath) =>
                            d.filePath = Value(propsOf(n).filePath)

\* a graph with a File node that nothing excludes and a reported function that
\* has line numbers
C2_Witness ==
    /\ Done
    /\ \E n \in SeqToSet(nodes) : ~HasFunctionLabel(n) /\ ~Excluded(n)
    /\ \E k \in 1..Len(deadCode) : IsDefined(deadCode[k].startLine)
    /\ Len(deadCode) < Len(nodes)

\* C3: isEntryPointFunction(name) is true exactly when name equals a roster word
\* up to the case of its letters, and a function node with such a name is never
\* reported.
C3_EntryPointNames ==
    \A n \in FunctionNodes :
        /\ isEntryPointFunction(nameOf(n)) <=> InRoster(nameOf(n))
        /\ (Done /\ InRoster(nameOf(n))) => n.id \notin ReportedIds

\* a node whose name is a roster word in another casing, with no caller, a plain
\* path and no exported flag, left out of the result
C3_Witness ==
    /\ Done
    /\ \E n \in FunctionNodes :
         /\ InRoster(nameOf(n)) /\ nameOf(n) \notin Roster
         /\ ~PredCalled(n) /\ ~PredIgnored(n) /\ ~PredEntryFile(n) /\ ~PredExported(n)
         /\ n.id \notin ReportedIds

\* C4: a function node whose path matches a default exclude pattern, a
\* caller-supplied ignore pattern or an entry-point file pattern is never reported.
C4_MatchedPathNeverReported ==
    Done => \A n \in FunctionNodes :
                MatchesAny(filePathOf(n),
                           DefaultExcludes \cup SeqToSet(ignorePatterns) \cup EntryPointGlobs)
                    => n.id \notin ReportedIds

\* a node that only a caller-supplied pattern excludes
C4_Witness ==
    /\ Done
    /\ \E n \in FunctionNodes :
         /\ MatchesAny(filePathOf(n), SeqToSet(ignorePatterns))
         /\ ~MatchesAny(filePathOf(n), DefaultExcludes \cup EntryPointGlobs)
         /\ ~PredCalled(n) /\ ~PredEntryName(n) /\ ~PredExported(n)
         /\ n.id \notin ReportedIds

\* the last part of a path
BaseNameOf(filePath) == LET parts == slashSplit(filePath) IN parts[Len(parts)]

DirectoriesOf(filePath) == LET parts == slashSplit(filePath) IN SubSeq(parts, 1, Len(parts) - 1)

index == <<"i","n","d","e","x">>
main == <<"m","a","i","n">>
app == <<"a","p","p">>

\* base is index.e, main.e or app.e for an extension e out of exts
IsEntryBaseName(base, exts) ==
    \E w \in {index, main, app} : \E e \in exts : base = w \o <<".">> \o e

AnyExtension == SeqToSet(Extensions)
TsJs == {<<"t","s">>, <<"j","s">>}

\* C5 as claimed: for every extension e, a file named index.e, main.e or app.e is
\* an entry-point file and a function node in it is never reported.
C5_AnyExtension ==
    Done => \A n \in FunctionNodes :
                IsEntryBaseName(BaseNameOf(filePathOf(n)), AnyExtension) =>
                    /\ isEntryPointFile(filePathOf(n))
                    /\ n.id \notin ReportedIds

\* C5 amended: for the extensions ts and js, a file named index.e, main.e or app.e
\* in a path with no directory that begins with a dot is an entry-point file and
\* a function node in it is never reported.
C5_TsJsExtension ==
    Done => \A n \in FunctionNodes :
                (/\ IsEntryBaseName(BaseNameOf(filePathOf(n)), TsJs)
                 /\ \A d \in SeqToSet(DirectoriesOf(filePathOf(n))) : ~DotPart(d)) =>
                    /\ isEntryPointFile(filePathOf(n))
                    /\ n.id \notin ReportedIds

\* a node in a/b/app.js that only the entry-point file check excludes
C5_Witness ==
    /\ Done
    /\ \E n \in FunctionNodes :
         /\ BaseNameOf(filePathOf(n)) = app \o <<".","j","s">>
         /\ Len(DirectoriesOf(filePathOf(n))) = 2
         /\ ~PredCalled(n) /\ ~PredIgnored(n) /\ ~PredEntryName(n) /\ ~PredExported(n)
         /\ n.id \notin ReportedIds

\* the flag is absent or false
NotTrue(flag) == flag = Undefined \/ flag = Some(FALSE)

\* C6: a function node with exported === true or isExported === true is never
\* reported; with both flags absent or false the node is reported unless another
\* predicate excludes it.
C6_Exported ==
    Done => \A n \in FunctionNodes :
                /\ (propsOf(n).exported = Some(TRUE) \/ propsOf(n).isExported = Some(TRUE))
                       => n.id \notin ReportedIds
                /\ (/\ NotTrue(propsOf(n).exported) /\ NotTrue(propsOf(n).isExported)
                    /\ ~PredCalled(n) /\ ~PredIgnored(n)
                    /\ ~PredEntryFile(n) /\ ~PredEntryName(n))
                       => n.id \in ReportedIds

\* a node that only isExported === true excludes, beside exported === false
C6_Witness ==
    /\ Done
    /\ \E n \in FunctionNodes :
         /\ propsOf(n).isExported = Some(TRUE) /\ propsOf(n).exported = Some(FALSE)
         /\ ~PredCalled(n) /\ ~PredIgnored(n) /\ ~PredEntryFile(n) /\ ~PredEntryName(n)
         /\ n.id \notin ReportedIds

\* the relationships that end at a node
IncomingOf(n) == {r \in SeqToSet(relationships) : r.endNode = n.id}

\* C7: a function node that is the endNode of relationships of other types only,
\* and that no other predicate excludes, is reported.
C7_OnlyCallsMakeLive ==
    Done => \A n \in FunctionNodes :
                (/\ IncomingOf(n) # {}
                 /\ \A r \in IncomingOf(n) : r.type # "calls"
                 /\ ~PredIgnored(n) /\ ~PredEntryFile(n)
                 /\ ~PredEntryName(n) /\ ~PredExported(n))
                    => n.id \in ReportedIds

\* a reported node with an incoming 'imports' relationship
C7_Witness ==
    /\ Done
    /\ \E n \in FunctionNodes :
         /\ \E r \in IncomingOf(n) : r.type = "imports"
         /\ n.id \in ReportedIds

\* the finding of a node, stated on the inputs
FindingOf(n) ==
    [id |-> n.id, name |-> nameOf(n), filePath |-> filePathOf(n),
     startLine |-> propsOf(n).startLine, endLine |-> propsOf(n).endLine]

\* the result with the five predicates taken as one disjunction
DisjunctionResult ==
    LET kept == SelectSeq(nodes, Survives)
    IN  [k \in 1..Len(kept) |-> FindingOf(kept[k])]

\* C8: with the five checks evaluated in any order, the result is the one the
\* order of the source gives, and the one their disjunction gives.
C8_OrderIrrelevant ==
    Done => /\ deadCode = findDeadCode(nodes, relationships, ignorePatterns)
            /\ deadCode = DisjunctionResult

\* the checks taken with `exported` first and `called` last on a called, exported
\* node in an entry-point file, followed by a node that is reported
C8_Witness ==
    /\ Done
    /\ order[1] = "exported" /\ order[5] = "called"
    /\ Len(nodes) = 2 /\ Len(deadCode) = 1
    /\ PredCalled(nodes[1]) /\ PredExported(nodes[1]) /\ PredEntryFile(nodes[1])

\* the node has no truthy name, filePath or file property
LacksNameAndPath(n) ==
    /\ ~TruthyString(propsOf(n).name)
    /\ ~TruthyString(propsOf(n).filePath)
    /\ ~TruthyString(propsOf(n).file)

\* C9 as claimed: a function node without name and path, with no caller and no
\* exported flag, is reported with name 'anonymous' and filePath '', since the
\* empty path matches no default, entry-point or caller-supplied pattern.
C9_EmptyPathMatchesNothing ==
    Done => \A n \in FunctionNodes :
                (LacksNameAndPath(n) /\ ~PredCalled(n) /\ ~PredExported(n)) =>
                    /\ ~MatchesAny(EmptyString, DefaultExcludes \cup EntryPointGlobs
                                                   \cup SeqToSet(ignorePatterns))
                    /\ \E k \in 1..Len(deadCode) :
                         /\ deadCode[k].id = n.id
                         /\ deadCode[k].name = anonymous
                         /\ deadCode[k].filePath = EmptyString

\* C9 amended: a missing name becomes 'anonymous'; a missing filePath becomes the
\* `file` property or, without one, the empty string, which matches no default
\* exclude and no entry-point pattern; a function node without name and path, with
\* no caller and no exported flag, is reported with name 'anonymous' and filePath
\* '' unless a caller-supplied pattern matches the empty path.
C9_MissingFieldsDefaulted ==
    Done => \A n \in FunctionNodes :
                /\ ~MatchesAny(EmptyString, DefaultExcludes \cup EntryPointGlobs)
                /\ (/\ LacksNameAndPath(n) /\ ~PredCalled(n) /\ ~PredExported(n)
                    /\ ~MatchesAny(EmptyString, SeqToSet(ignorePatterns))) =>
                       \E k \in 1..Len(deadCode) :
                           /\ deadCode[k].id = n.id
                           /\ deadCode[k].name = anonymous
                           /\ deadCode[k].filePath = EmptyString
                /\ \A k \in 1..Len(deadCode) :
                       deadCode[k].id = n.id =>
                           /\ ~TruthyString(propsOf(n).name) => deadCode[k].name = anonymous
                           /\ (~TruthyString(propsOf(n).filePath) /\ TruthyString(propsOf(n).file))
                                  => deadCode[k].filePath = Value(propsOf(n).file)
                           /\ (~TruthyString(propsOf(n).filePath) /\ ~TruthyString(propsOf(n).file))
                                  => deadCode[k].filePath = EmptyString

\* a function node without properties, reported as 'anonymous' at path ''
C9_Witness ==
    /\ Done
    /\ \E n \in FunctionNodes :
         /\ ~IsDefined(n.properties)
         /\ \E k \in 1..Len(deadCode) :
              /\ deadCode[k].id = n.id
              /\ deadCode[k].name = anonymous
              /\ deadCode[k].filePath = EmptyString

Reverse(q) == [k \in 1..Len(q) |-> q[Len(q) + 1 - k]]

\* C10: filterByIgnorePatterns returns exactly the candidates whose file matches
\* none of the patterns, in input order, the same for the patterns reversed or
\* repeated, and its input when there is no pattern.
C10_FilterByIgnorePatterns ==
    Done =>
        /\ filtered = SelectSeq(candidates,
                                LAMBDA c : ~MatchesAny(c.file, SeqToSet(ignorePatterns)))
        /\ filtered = filterByIgnorePatterns(candidates, Reverse(ignorePatterns))
        /\ filtered = filterByIgnorePatterns(candidates, ignorePatterns \o ignorePatterns)
        /\ ignorePatterns = <<>> => filtered = candidates

\* two different patterns, of which only the second matches the one candidate dropped
C10_Witness ==
    /\ Done
    /\ Len(ignorePatterns) = 2 /\ ignorePatterns[1] # ignorePatterns[2]
    /\ Len(candidates) = 2 /\ Len(filtered) = 1
    /\ \A c \in SeqToSet(candidates) : ~minimatch(c.file, ignorePatterns[1])

----------------------------------------------------------------------------
(* filterByChangedFiles *)

Scoped == pc = "scoped"

\* C11: filterByChangedFiles returns exactly the candidates whose file is an
\* element of changedFiles by string equality, each as often as it occurs, and the empty
\* list when changedFiles is empty.
C11_ExactMembership ==
    Scoped =>
        /\ Len(filtered) = Cardinality({k \in 1..Len(candidates) :
                                          candidates[k].file \in changedFiles})
        /\ \A c \in SeqToSet(candidates) :
              c \in SeqToSet(filtered) <=> \E f \in changedFiles : f = c.file
        /\ changedFiles = {} => filtered = <<>>

\* a changed-file name that, read as a glob, matches the file of a candidate
\* that is dropped, next to a candidate that is kept
C11_Witness ==
    /\ Scoped
    /\ srcStarTsGlob \in changedFiles
    /\ Len(candidates) = 2 /\ Len(filtered) = 1
    /\ \E k \in 1..2 : candidates[k].file = srcUtilsTs /\ srcUtilsTs \notin changedFiles

RECURSIVE embedsFrom(_, _, _, _)
\* sub[i..] is found in full[j..] at strictly increasing positions
embedsFrom(sub, i, full, j) ==
    IF i > Len(sub) THEN TRUE
    ELSE IF j > Len(full) THEN FALSE
    ELSE IF sub[i] = full[j] THEN embedsFrom(sub, i + 1, full, j + 1)
    ELSE embedsFrom(sub, i, full, j + 1)

IsSubsequence(sub, full) == embedsFrom(sub, 1, full, 1)

\* C12: a call of either filter leaves its arguments as they were and returns
\* a subsequence of the candidate list: the kept candidates, unaltered, at
\* strictly increasing input positions.
C12_SubsequenceAndFrame ==
    [][(Done' \/ Scoped') =>
          /\ IsSubsequence(filtered', candidates)
          /\ candidates' = candidates
          /\ ignorePatterns' = ignorePatterns
          /\ changedFiles' = changedFiles]_vars

\* two different candidates kept by filterByChangedFiles
C12_Witness ==
    /\ Scoped
    /\ Len(filtered) = 2 /\ filtered[1] # filtered[2]
    /\ filtered = candidates

----------------------------------------------------------------------------
(* formatPrComment *)

Formatted == pc = "formatted"
FormattedGraph == pc = "formattedGraph"

StartsWith(line, prefix) ==
    Len(line) >= Len(prefix) /\ SubSeq(line, 1, Len(prefix)) = prefix

EndsWith(line, suffix) ==
    Len(line) >= Len(suffix)
        /\ SubSeq(line, Len(line) - Len(suffix) + 1, Len(line)) = suffix

Contains(line, part) ==
    \E i \in 1..(Len(line) - Len(part) + 1) : SubSeq(line, i, i + Len(part) - 1) = part

LinesWith(prefix) == SelectSeq(comment, LAMBDA l : StartsWith(l, prefix))

\* 'Analysis summary'
analysisSummary ==
    <<"A","n","a","l","y","s","i","s"," ","s","u","m","m","a","r","y">>

\* 'Powered by [Supermodel]'
poweredBySupermodel ==
    <<"P","o","w","e","r","e","d"," ","b","y"," ","[","S","u","p","e","r","m","o","d","e","l","]">>

\* the lines of the table: its header, its rule and its rows all start with '|'
TableLines == LinesWith(<<"|">>)

\* the rows of the table start with '| ' and a backtick
RowLines == LinesWith(rowOpen)

\* the list the report was rendered from: its length, and the file of its k-th element
Total == IF Formatted THEN Len(candidates) ELSE Len(deadCode)
FileAt(k) == IF Formatted THEN candidates[k].file ELSE deadCode[k].filePath

IsDigits(d) == Len(d) >= 1 /\ \A k \in 1..Len(d) : \E v \in 0..9 : d[k] = DecimalDigits[v + 1]

DigitValue(ch) == CHOOSE v \in 0..9 : ch = DecimalDigits[v + 1]

RECURSIVE decimalValue(_)
\* the number a string of decimal digits denotes
decimalValue(d) ==
    IF Len(d) = 0 THEN 0
    ELSE 10 * decimalValue(SubSeq(d, 1, Len(d) - 1)) + DigitValue(d[Len(d)])

\* line is before, a decimal numeral of n, and after
Numbered(line, before, n, after) ==
    /\ StartsWith(line, before) /\ EndsWith(line, after)
    /\ LET d == SubSeq(line, Len(before) + 1, Len(line) - Len(after))
       IN  IsDigits(d) /\ decimalValue(d) = n /\ line = before \o d \o after

FixedEmptyMessage ==
    /\ \E k \in 1..Len(comment) : comment[k] = noDeadCodeFound
    /\ TableLines = <<>>
    /\ \A k \in 1..Len(comment) : ~Contains(comment[k], analysisSummary)
    /\ comment = emptyReport

\* C13: for an empty list, with metadata or without, the report is the fixed
\* message with the sentence 'No dead code found! Your codebase is clean.', no
\* table line and no 'Analysis summary'.
C13_EmptyListFixedMessage ==
    /\ (Formatted /\ candidates = <<>>) => FixedEmptyMessage
    /\ (FormattedGraph /\ deadCode = <<>>) => FixedEmptyMessage

\* the empty list formatted with metadata supplied
C13_Witness == Formatted /\ candidates = <<>> /\ IsDefined(metadata)

EndsWithFooter ==
    /\ Len(comment) >= 1
    /\ Contains(comment[Len(comment)], poweredBySupermodel)

\* C14 as stated: every report, that of the empty list included, ends with the
\* attribution footer line.
C14_FooterAlways == (Formatted \/ FormattedGraph) => EndsWithFooter

\* C14: the report of every non-empty list, with metadata or without, ends with
\* the attribution footer line; the report of the empty list is the fixed
\* message, which has no footer.
C14_FooterWhenFindings ==
    (Formatted \/ FormattedGraph) => (EndsWithFooter <=> Total >= 1)

\* a non-empty list formatted with metadata: the footer follows the summary
C14_Witness ==
    /\ Formatted /\ Len(candidates) >= 1 /\ IsDefined(metadata)
    /\ EndsWithFooter

Min(a, b) == IF a < b THEN a ELSE b

\* ' more. See action output for full list.'
moreSeeActionOutput ==
    <<" ","m","o","r","e","."," ","S","e","e"," ","a","c","t","i","o","n"," ","o","u","t","p","u","t"," ","f","o","r"," ","f","u","l","l"," ","l","i","s","t",".">>

NoteLines == SelectSeq(comment, LAMBDA l : EndsWith(l, moreSeeActionOutput \o <<"_">>))

\* C15: the table has min(n, 50) rows, the k-th row being that of the k-th
\* element of the list; the note '...and N more. See action output for full
\* list.' is there, once and with N = n - 50, exactly when n > 50.
C15_RowCapAndNote ==
    ((Formatted \/ FormattedGraph) /\ Total >= 1) =>
        /\ Len(RowLines) = Min(Total, 50)
        /\ LET rows == RowLines
           IN  \A k \in 1..Len(rows) : Contains(rows[k], FileAt(k))
        /\ Len(NoteLines) = IF Total > 50 THEN 1 ELSE 0
        /\ Total > 50 =>
              Numbered(NoteLines[1], <<"_", ".", ".", ".", "a", "n", "d", " ">>, Total - 50,
                       moreSeeActionOutput \o <<"_">>)

\* two candidates more than the table holds
C15_Witness == Formatted /\ Len(candidates) = 52 /\ Len(RowLines) = 50

HeaderLines == LinesWith(foundOpen)

Noun == IF Formatted THEN unusedCodeElement ELSE unusedFunction

\* C16: the header of the report of n >= 1 elements states n, followed by the
\* noun of the mode, singular exactly when n = 1.
C16_HeaderCountAndNoun ==
    ((Formatted \/ FormattedGraph) /\ Total >= 1) =>
        /\ Len(HeaderLines) = 1
        /\ Numbered(HeaderLines[1], foundOpen, Total,
                    Noun \o (IF Total = 1 THEN <<>> ELSE <<"s">>) \o <<":">>)

\* one candidate: the singular
C16_Witness == Formatted /\ Len(candidates) = 1 /\ Len(HeaderLines) = 1

RECURSIVE escapedFrom(_, _)
\* each '|' of the name as '\|', each newline as one space, the rest as it is
escapedFrom(name, i) ==
    IF i > Len(name) THEN <<>>
    ELSE (CASE name[i] = "|" -> <<"\\", "|">>
            [] name[i] = "\n" -> <<" ">>
            [] OTHER -> <<name[i]>>) \o escapedFrom(name, i + 1)

BreaksNoCell(cell) ==
    /\ \A k \in 1..Len(cell) : cell[k] # "\n"
    /\ \A k \in 1..Len(cell) : cell[k] = "|" => (k > 1 /\ cell[k - 1] = "\\")

\* C17: a row of the candidate mode starts with the name, escaped, between
\* backticks: the cell has no line break and no '|' without a backslash before
\* it; the file follows the type as it is in the candidate.
C17_NameCellEscaped ==
    (Formatted /\ Len(candidates) >= 1) =>
        LET rows == RowLines
        IN  \A k \in 1..Len(rows) :
                LET c == candidates[k]
                    cell == escapedFrom(c.name, 1)
                    row == rows[k]
                IN  /\ StartsWith(row, rowOpen \o cell \o nameClose \o charsOf(c.type)
                                            \o cellBreak \o c.file)
                    /\ BreaksNoCell(cell)
                    /\ \A j \in 1..Len(row) : row[j] # "\n"

\* a name with a newline and a '|' in a file whose path has a '|'
C17_Witness ==
    /\ Formatted
    /\ \E k \in 1..Len(candidates) :
          candidates[k].name = newlineName /\ candidates[k].file = pipeFile

Bullet(phrase) == <<"-", " ", "*", "*">> \o phrase \o <<"*", "*", ":", " ">>

\* 'Total declarations analyzed'
totalDeclarationsAnalyzed ==
    <<"T","o","t","a","l"," ","d","e","c","l","a","r","a","t","i","o","n","s"," ","a","n","a","l","y","z","e","d">>

\* 'Dead code candidates'
deadCodeCandidates ==
    <<"D","e","a","d"," ","c","o","d","e"," ","c","a","n","d","i","d","a","t","e","s">>

\* 'Alive code'
aliveCode ==
    <<"A","l","i","v","e"," ","c","o","d","e">>

\* 'Transitive dead'
transitiveDead ==
    <<"T","r","a","n","s","i","t","i","v","e"," ","d","e","a","d">>

\* 'Symbol-level dead'
symbolLevelDead ==
    <<"S","y","m","b","o","l","-","l","e","v","e","l"," ","d","e","a","d">>

SummaryLines == SelectSeq(comment, LAMBDA l : Contains(l, analysisSummary))

\* the optional count is shown, once, exactly when it has a value
ShownIffPresent(phrase, count) ==
    LET shown == LinesWith(Bullet(phrase))
    IN  IF IsDefined(count)
        THEN Len(shown) = 1 /\ Numbered(shown[1], Bullet(phrase), Value(count), <<>>)
        ELSE shown = <<>>

\* C18: the report of a non-empty list has, when metadata is supplied, one
\* 'Analysis summary' section with the lines of the total declarations, the
\* dead code candidates, the alive code and the analysis method, the
\* 'Transitive dead' and 'Symbol-level dead' lines being there exactly when the
\* count has a value, 0 included; without metadata it has no such section.
C18_AnalysisSummary ==
    (Formatted /\ Len(candidates) >= 1) =>
        IF IsDefined(metadata)
        THEN LET md == Value(metadata)
             IN  /\ Len(SummaryLines) = 1
                 /\ ShownIffPresent(totalDeclarationsAnalyzed, Some(md.totalDeclarations))
                 /\ ShownIffPresent(deadCodeCandidates, Some(md.deadCodeCandidates))
                 /\ ShownIffPresent(aliveCode, Some(md.aliveCode))
                 /\ LinesWith(analysisMethodLabel) = <<analysisMethodLabel \o md.analysisMethod>>
                 /\ ShownIffPresent(transitiveDead, md.transitiveDeadCount)
                 /\ ShownIffPresent(symbolLevelDead, md.symbolLevelDeadCount)
        ELSE /\ SummaryLines = <<>>
             /\ LinesWith(<<"-", " ", "*", "*">>) = <<>>

\* metadata whose transitive count is 0 and whose symbol-level count is missing
C18_Witness ==
    /\ Formatted /\ Len(candidates) >= 1 /\ IsDefined(metadata)
    /\ Value(metadata).transitiveDeadCount = Some(0)
    /\ Value(metadata).symbolLevelDeadCount = Undefined

----------------------------------------------------------------------------
(* pollForResult *)

Ended == poll.pc = "ended"

Elapsed == poll.now - poll.startTime

ThrewMessage(first) ==
    /\ poll.outcome.kind = "thrown"
    /\ statusOf(poll.outcome.error) = 0
    /\ Len(poll.outcome.error.message) >= 1
    /\ poll.outcome.error.message[1] = first

\* it returned the result of the 'completed' response it had just received
EndsReturned ==
    /\ poll.outcome.kind = "returned"
    /\ poll.response.status = "completed"
    /\ IsDefined(poll.response.result)
    /\ poll.outcome.value = poll.response.result

\* it threw the remote-failure error on the 'failed' response it had just received
EndsRemoteFailure ==
    /\ ThrewMessage("Analysis job failed: ")
    /\ poll.response.status = "failed"

\* it threw the timeout error, the time elapsed having reached the poll timeout
EndsTimedOut ==
    /\ ThrewMessage("Analysis timed out after ")
    /\ Elapsed >= 900000

\* it threw the attempts-exhausted error after its 90 requests
EndsExhausted ==
    /\ ThrewMessage("Analysis did not complete within ")
    /\ poll.requests = 90

\* it threw what a request had thrown
EndsRejected ==
    /\ poll.outcome.kind = "thrown"
    /\ poll.outcome.error \in RequestErrors

FourOutcomes == <<EndsReturned, EndsRemoteFailure, EndsTimedOut, EndsExhausted>>

HowMany(outcomes) == Cardinality({k \in 1..Len(outcomes) : outcomes[k]})

\* C19 as stated: a call that has ended has ended in exactly one of the four
\* ways: the result returned, the remote-failure error, the timeout error, the
\* attempts-exhausted error.
C19_FourOutcomes == Ended => HowMany(FourOutcomes) = 1

\* C19: a call that has ended has ended in exactly one of five ways: the four
\* and the error of a rejected request, thrown on as it is; the call does not
\* go to sleep once the elapsed time has reached the poll timeout.
C19_FiveOutcomes ==
    /\ Ended => HowMany(FourOutcomes \o <<EndsRejected>>) = 1
    /\ poll.pc = "sleep" => Elapsed < 900000

\* the attempts exhausted before the timeout
C19_Witness == Ended /\ EndsExhausted /\ Elapsed < 900000

----------------------------------------------------------------------------
(* run *)

RanWithoutError == run.pc = "done" /\ ~run.threw

\* scoping applies in a pull request with a token
Scoping == run.pullRequest /\ run.token

\* the candidates of the response whose file no ignore pattern matches ...
IgnoreFiltered ==
    SelectSeq(run.result.deadCodeCandidates,
              LAMBDA c : ~MatchesAny(c.file, SeqToSet(run.ignorePatterns)))

\* ... and, when scoping applies, whose file is among the changed files
FinalCandidates ==
    IF Scoping
    THEN SelectSeq(IgnoreFiltered, LAMBDA c : c.file \in Value(run.changedFiles))
    ELSE IgnoreFiltered

CountOf(text, ch) == Cardinality({k \in 1..Len(text) : text[k] = ch})

\* C20: after a run without error the output dead-code-count is the numeral of
\* the length of the final candidate list, and dead-code-json is the JSON text
\* of that list: an array of as many objects.
C20_OutputsOfFinalList ==
    RanWithoutError =>
        /\ IsDefined(run.outputs["dead-code-count"])
        /\ IsDefined(run.outputs["dead-code-json"])
        /\ LET count == Value(run.outputs["dead-code-count"])
               json == Value(run.outputs["dead-code-json"])
           IN  /\ IsDigits(count) /\ decimalValue(count) = Len(FinalCandidates)
               /\ json = stringify(FinalCandidates)
               /\ json[1] = "[" /\ json[Len(json)] = "]"
               /\ CountOf(json, "{") = Len(FinalCandidates)
               /\ CountOf(json, "}") = Len(FinalCandidates)

\* a run in a pull request whose response has two candidates, one left by the
\* ignore patterns and the scoping together
C20_Witness ==
    /\ RanWithoutError /\ Scoping
    /\ Len(run.result.deadCodeCandidates) = 2
    /\ Len(IgnoreFiltered) = 2
    /\ Len(FinalCandidates) = 1
    /\ run.outputs["dead-code-count"] = Some(<<"1">>)

\* C21: after a run without error, failure has been signalled exactly when the
\* final candidate list is not empty and fail-on-dead-code is true, and then
\* once; with the flag false it has not been signalled, whatever the list.
C21_FailIffFlagAndFindings ==
    RanWithoutError =>
        /\ run.failed # <<>> <=> (Len(FinalCandidates) > 0 /\ run.failOnDeadCode)
        /\ Len(run.failed) <= 1
        /\ ~run.failOnDeadCode => run.failed = <<>>

\* two candidates left and the flag false: no failure signalled
C21_Witness ==
    /\ RanWithoutError
    /\ Len(FinalCandidates) = 2 /\ ~run.failOnDeadCode
    /\ run.failed = <<>>

RunEnded == run.pc = "done"

CommentWanted == run.commentOnPr /\ run.pullRequest /\ run.token

\* C22 as stated: a run has posted at most one comment, and one exactly when
\* comment-on-pr is true, the run is in a pull request and there is a token.
C22_PostsIffWanted ==
    RunEnded =>
        /\ Len(run.comments) <= 1
        /\ run.comments # <<>> <=> CommentWanted

\* C22: a run posts at most one comment and none unless comment-on-pr is true,
\* the run is in a pull request and there is a token; a run without error
\* posts one exactly then; the body is formatPrComment of the final candidate
\* list and the metadata of the response.
C22_PostsIffWantedAndNoError ==
    /\ Len(run.comments) <= 1
    /\ run.comments # <<>> =>
          /\ CommentWanted
          /\ run.comments[1] = formatPrComment(FinalCandidates, Some(run.result.metadata))
    /\ RanWithoutError => (run.comments # <<>> <=> CommentWanted)

\* a run without error that posted the report of one candidate
C22_Witness ==
    /\ RanWithoutError
    /\ Len(run.comments) = 1
    /\ Len(run.result.deadCodeCandidates) = 2 /\ Len(FinalCandidates) = 1

\* the run ended in its catch block
RunCaught == RunEnded /\ run.threw

\* the HTTP status of the caught error, 0 if it has none
CaughtStatus ==
    LET e == run.error
    IN  IF IsDefined(e.response) /\ Value(e.response).status \notin {Undefined, Some(0)}
        THEN Value(Value(e.response).status)
        ELSE IF e.status \notin {Undefined, Some(0)} THEN Value(e.status)
        ELSE IF e.statusCode \notin {Undefined, Some(0)} THEN Value(e.statusCode)
        ELSE 0

\* response.data.message, response.data.error, response.data, body.message,
\* body.error, error.message of the caught error
CaughtChain ==
    LET e == run.error
        data == IF IsDefined(e.response) THEN Value(e.response).data ELSE NoData
    IN  <<data.message, data.error, data.text, e.body.message, e.body.error, e.message>>

\* the failure message of a caught error, given the message of last resort
ExpectedFailure(default) ==
    LET found == {k \in 1..Len(CaughtChain) : CaughtChain[k] # <<>>}
    IN  IF CaughtStatus = 401 THEN <<"Invalid API key">>
        ELSE IF CaughtStatus = 413 THEN <<"Repository archive too large">>
        ELSE IF CaughtStatus = 429 THEN <<"Rate limit exceeded">>
        ELSE IF found # {} THEN CaughtChain[CHOOSE k \in found : \A j \in found : k <= j]
        ELSE default

\* the message of last resort: which one depends on the status
DefaultByStatus ==
    IF CaughtStatus = 500 THEN <<"Internal server error">>
    ELSE IF CaughtStatus # 0 THEN <<"API error (">> \o toDecimal(CaughtStatus) \o <<")">>
    ELSE <<"An unknown error occurred">>

\* C23 as stated: a caught error gives exactly one failure signal with a
\* non-empty message: the fixed message of status 401, 413 or 429, otherwise
\* the first non-empty message of the chain, otherwise one fixed default
C23_OneFixedDefault ==
    /\ Len(run.failed) <= 1
    /\ RunCaught =>
          /\ Len(run.failed) = 1
          /\ run.failed[1] # <<>>
          /\ run.failed[1] = ExpectedFailure(<<"An unknown error occurred">>)

\* C23: a caught error gives exactly one failure signal with a non-empty
\* message: the fixed message of status 401, 413 or 429, otherwise the first
\* non-empty message of the chain, otherwise a default that depends on the
\* status: 'Internal server error' for 500, 'API error (<status>)' for another
\* status, 'An unknown error occurred' without a status
C23_DefaultByStatus ==
    /\ Len(run.failed) <= 1
    /\ RunCaught =>
          /\ Len(run.failed) = 1
          /\ run.failed[1] # <<>>
          /\ run.failed[1] = ExpectedFailure(DefaultByStatus)

\* a caught GitHub error whose response data and own message both hold a
\* message, the failure message being the one of the response data
C23_Witness ==
    /\ RunCaught
    /\ CaughtStatus = 403
    /\ CaughtChain[1] # <<>>
    /\ CaughtChain[6] # <<>>
    /\ CaughtChain[1] # CaughtChain[6]
    /\ run.failed = <<CaughtChain[1]>>

----------------------------------------------------------------------------

\* the response just received is 'failed' or is 'completed' with a result
TerminalResponse ==
    \/ poll.response.status = "failed"
    \/ poll.response.status = "completed" /\ poll.response.result # Undefined

\* C24: pollForResult submits at most 90 requests, one at a time, and none
\* after a 'failed' response or a 'completed' response that carries a result:
\* on such a response the call has ended, and a call that has ended submits
\* nothing
C24_BoundedRequests ==
    /\ [](poll.requests <= 90)
    /\ [](TerminalResponse => Ended)
    /\ [][/\ poll'.requests \in {poll.requests, poll.requests + 1}
          /\ Ended => poll'.requests = poll.requests]_vars

\* the call has made its 90 requests, none of them answered with a terminal
\* response, and has stopped after the sleep that followed the last one
C24_Witness ==
    /\ Ended
    /\ poll.requests = 90
    /\ poll.attempt = 91
    /\ ~TerminalResponse
    /\ poll.outcome.kind = "thrown"

----------------------------------------------------------------------------

\* C25: every request pollForResult has sent carries the idempotency key and
\* the archive the call was given, so all its requests are the same request,
\* and the key and the archive of the call never change
C25_SameRequest ==
    /\ [](poll.sent \subseteq {[idempotencyKey |-> poll.idempotencyKey, file |-> poll.zipBlob]})
    /\ [](poll.requests >= 1 => Cardinality(poll.sent) = 1)
    /\ [][poll'.idempotencyKey = poll.idempotencyKey /\ poll'.zipBlob = poll.zipBlob]_vars

\* the first submission and two later polls have been sent, as one request
C25_Witness ==
    /\ poll.requests = 3
    /\ poll.attempt = 3
    /\ poll.sent = {[idempotencyKey |-> poll.idempotencyKey, file |-> poll.zipBlob]}
    /\ poll.idempotencyKey \in IdempotencyKeys

----------------------------------------------------------------------------

\* the filenames of the entries of some pages
FilenamesOf(pages) ==
    UNION {{pages[k][i].filename : i \in 1..Len(pages[k])} : k \in 1..Len(pages)}

\* C26: getChangedFiles requests pages 1, 2, 3, ... of 100 entries in this
\* order, each after the one before was answered with 100 entries; when it
\* returns a set, the last page it fetched is the first with fewer than 100
\* entries and the set holds the filenames of all the pages it fetched;
\* outside a pull request it returns null and has made no request
C26_PagesInOrder ==
    LET requested == listing.requested
        fetched == listing.fetched
    IN  /\ \A k \in 1..Len(requested) : requested[k] = [per_page |-> 100, page |-> k]
        /\ Len(fetched) <= Len(requested)
        /\ Len(requested) <= Len(fetched) + 1
        /\ \A k \in 1..Len(fetched) :
              (k < Len(fetched) \/ listing.pc = "request") => Len(fetched[k]) = 100
        /\ listing.returned = "set" =>
              /\ listing.pc = "ended"
              /\ Len(fetched) = Len(requested)
              /\ Len(fetched) >= 1
              /\ Len(fetched[Len(fetched)]) < 100
              /\ listing.changedFiles = FilenamesOf(fetched)
        /\ (listing.pc = "ended" /\ ~listing.pullRequest) <=> listing.returned = "null"
        /\ ~listing.pullRequest => requested = <<>>
        /\ (listing.pc = "ended" /\ listing.pullRequest) => listing.returned \in {"set", "thrown"}

\* three pages were fetched, two full ones and a short one, the same name
\* being on more than one page, and the set of the two names was returned
C26_Witness ==
    /\ listing.returned = "set"
    /\ Len(listing.fetched) = 3
    /\ Len(listing.fetched[2]) = 100
    /\ Len(listing.fetched[3]) = 2
    /\ listing.fetched[3][1] = listing.fetched[1][1]
    /\ Cardinality(listing.changedFiles) = 2

----------------------------------------------------------------------------

NodeIds == {nodes[k].id : k \in 1..Len(nodes)}

\* the ids that call the node: the startNodes of its incoming 'calls' edges
CallersOf(n) ==
    {r.startNode : r \in {x \in SeqToSet(relationships) : x.type = "calls" /\ x.endNode = n.id}}

\* C27: a Function node with an incoming 'calls' edge is not reported,
\* whoever its callers are: itself, nodes that are reported as dead, ids that
\* no node has; and a Function node without one is reported unless one of the
\* four other checks excludes it, though it may call live functions
C27_DirectCallersOnly ==
    Done => \A n \in FunctionNodes :
                /\ CallersOf(n) # {} => n.id \notin ReportedIds
                /\ (CallersOf(n) = {n.id}) => n.id \notin ReportedIds
                /\ (CallersOf(n) # {} /\ CallersOf(n) \subseteq ReportedIds)
                       => n.id \notin ReportedIds
                /\ (CallersOf(n) # {} /\ CallersOf(n) \cap NodeIds = {})
                       => n.id \notin ReportedIds
                /\ (CallersOf(n) = {} /\ ~PredIgnored(n) /\ ~PredEntryFile(n)
                        /\ ~PredEntryName(n) /\ ~PredExported(n))
                       => n.id \in ReportedIds

\* three functions that nothing else excludes and that are not reported: one
\* whose only caller is itself, one whose only caller is reported as dead, one
\* whose only caller is an id that no node has
SparedBy(n, callers) ==
    /\ CallersOf(n) = callers
    /\ ~PredIgnored(n) /\ ~PredEntryFile(n) /\ ~PredEntryName(n) /\ ~PredExported(n)
    /\ n.id \notin ReportedIds

C27_Witness ==
    /\ Done
    /\ \E n \in FunctionNodes : SparedBy(n, {n.id})

C27_WitnessDeadCaller ==
    /\ Done
    /\ \E n \in FunctionNodes :
         \E c \in ReportedIds : c # n.id /\ SparedBy(n, {c})

C27_WitnessAbsentCaller ==
    /\ Done
    /\ \E n \in FunctionNodes :
         \E c \in {"x1"} : c \notin NodeIds /\ SparedBy(n, {c})

----------------------------------------------------------------------------

\* the response just received has status 'completed' and no result
CompletedWithoutResult ==
    poll.response.status = "completed" /\ poll.response.result = Undefined

\* what the loop does with a pending job: it sleeps for the default interval
\* and then polls again, or throws the timeout error if the time is up
TreatedAsPending ==
    \/ poll.pc = "sleep" /\ poll.retryMs = 10000 /\ Elapsed < 900000
    \/ Ended /\ EndsTimedOut

----------------------------------------------------------------------------

\* C29: a run that has created the archive .dead-code-hunter-repo.zip has
\* deleted it when it ends, with or without an error
C29_ArchiveDeleted ==
    (RunEnded /\ run.archiveCreated) => ~run.zipExists

\* where the code does delete it: in the runs that reach the unlink, which
\* are those that end without an error
C29_DeletedWithoutError ==
    (RanWithoutError /\ run.archiveCreated) => ~run.zipExists

\* a run that created the archive and ended in an error of the analysis: the
\* archive is still there
C29_ArchiveLeft ==
    /\ RunCaught
    /\ run.archiveCreated
    /\ run.zipExists
    /\ run.failed = <<failedMessage(Response("failed", Undefined, Undefined, Undefined))>>

----------------------------------------------------------------------------

\* the run is past the filtering of the candidates
Filtered == run.pc \in {"comment", "unlink"} \/ RanWithoutError

\* C30: while run waits for the changed files it is in a pull request with a
\* token and holds the ignore-filtered list, not yet scoped; past the
\* filtering, the changed files were fetched exactly when the run is in a
\* pull request with a token, the list is then the ignore-filtered list
\* scoped to them, and otherwise it is the ignore-filtered list, from which
\* the outputs and the failure decision are computed
C30_IgnoreThenScope ==
    /\ run.pc = "changed" =>
          /\ run.pullRequest /\ run.token
          /\ run.changedFiles = Undefined
          /\ run.candidates = IgnoreFiltered
    /\ Filtered =>
          /\ IsDefined(run.changedFiles) <=> (run.pullRequest /\ run.token)
          /\ IsDefined(run.changedFiles) =>
                run.candidates = SelectSeq(IgnoreFiltered,
                                           LAMBDA c : c.file \in Value(run.changedFiles))
          /\ ~IsDefined(run.changedFiles) => run.candidates = IgnoreFiltered
          /\ run.outputs["dead-code-count"] = Some(toDecimal(Len(run.candidates)))
          /\ run.outputs["dead-code-json"] = Some(stringify(run.candidates))
    /\ (RanWithoutError /\ ~(run.pullRequest /\ run.token)) =>
          /\ run.outputs["dead-code-count"] = Some(toDecimal(Len(IgnoreFiltered)))
          /\ run.failed # <<>> <=> (IgnoreFiltered # <<>> /\ run.failOnDeadCode)

\* a run in a pull request without a token: no scoping, one of the two
\* candidates of the response left by the ignore patterns, and the run failed
\* on it
C30_Witness ==
    /\ RanWithoutError
    /\ run.pullRequest /\ ~run.token
    /\ run.changedFiles = Undefined
    /\ Len(run.result.deadCodeCandidates) = 2
    /\ Len(IgnoreFiltered) = 1
    /\ run.candidates = IgnoreFiltered
    /\ run.failed = <<foundMessage(1)>>

\* a run in a pull request with a token, waiting for the changed files with
\* the ignore-filtered list in hand
C30_WitnessScoping ==
    /\ run.pc = "changed"
    /\ Len(run.result.deadCodeCandidates) = 2
    /\ Len(run.candidates) = 1

====
